---- MODULE Spec2Model ----
(***************************************************************************)
(* The flat-ledger workflow executor of src/model/run_workflow.py:         *)
(* WorkflowExecutor.run_workflow walks the node/connection catalog of one  *)
(* workflow, dispatches every node through execute_node and keeps one      *)
(* row of the Executions table per dispatched node.                        *)
(*                                                                         *)
(* Python values are tagged records: None, dict, int and str.  A str is    *)
(* either the JSON serialisation of a value (JsonText) or a text that is   *)
(* no JSON document (RawText); json.loads and json.dumps act on that       *)
(* representation.  Dict keys are strings, in sorted order (the insertion  *)
(* order of a Python dict is not kept).                                    *)
(***************************************************************************)
EXTENDS Integers, Sequences, FiniteSets, TLC

\* Bound of the model: the number of Connections rows of a workflow.
MaxConns == 3

WorkflowIds == {1}

(***************************************************************************)
(* Python values                                                           *)
(***************************************************************************)
None == [t |-> "none"]
\* a key that a Python dict does not hold
Absent == [t |-> "absent"]
Dict(d) == [t |-> "dict", d |-> d]
PyInt(n) == [t |-> "int", n |-> n]
JsonText(v) == [t |-> "json", v |-> v]
RawText(s) == [t |-> "raw", s |-> s]

EmptyDict == Dict(<<>>)

IsStr(x) == x.t \in {"json", "raw"}
IsDict(x) == x.t = "dict"

\* bool(x)
Truthy(x) ==
    CASE x.t = "none" -> FALSE
      [] x.t = "dict" -> DOMAIN x.d # {}
      [] x.t = "int" -> x.n # 0
      [] x.t = "raw" -> x.s # ""
      [] x.t = "json" -> TRUE

\* json.loads(x) for a str x: ok = FALSE stands for json.JSONDecodeError
json_loads(x) ==
    IF x.t = "json" THEN [ok |-> TRUE, v |-> x.v] ELSE [ok |-> FALSE, v |-> None]

json_dumps(v) == JsonText(v)

\* d[k] = v on a mapping
Put(f, k, v) == [x \in DOMAIN f \cup {k} |-> IF x = k THEN v ELSE f[x]]

\* Update, the keys of a kept (first write wins)
Update_KeepFirst(a, b) ==
    [k \in DOMAIN a \cup DOMAIN b |-> IF k \in DOMAIN a THEN a[k] ELSE b[k]]

\* dict.update: the keys of b overwrite those of a
Update(a, b) == [k \in DOMAIN a \cup DOMAIN b |-> IF k \in DOMAIN b THEN b[k] ELSE a[k]]

Range(s) == {s[i] : i \in DOMAIN s}

\* str(n) of an int, as an f-string formats it
str(n) == ToString(n)

(***************************************************************************)
(* The catalog: node rows and connection rows                              *)
(***************************************************************************)
\* (type, parameters) of the Node rows the catalog is drawn from; parameters
\* is the TEXT column the executor decodes with json.loads
Row(type, parameters) == [type |-> type, parameters |-> parameters]

BasicKinds ==
    { Row("Trigger", JsonText(EmptyDict)),
      Row("Command", JsonText(Dict([command |-> RawText("cmd")]))) }

\* the other types, a type the executor does not know, a Command row without
\* a command and a row whose parameters text is no JSON document
AllKinds ==
    BasicKinds \cup
    { Row("Constant", JsonText(Dict([a |-> RawText("v3")]))),
      Row("LLM", JsonText(EmptyDict)),
      Row("Conditional", JsonText(EmptyDict)),
      Row("Manual", JsonText(EmptyDict)),
      Row("UnknownType", JsonText(EmptyDict)),
      Row("Command", JsonText(EmptyDict)),
      Row("Trigger", RawText("{oops")) }

\* the node lists with ids 1..n (fetch_workflow orders the rows by id)
NodeLists(n, kinds) ==
    { [i \in 1..n |-> [id |-> i, type |-> f[i].type, parameters |-> f[i].parameters]] :
        f \in [1..n -> kinds] }

Conn(a, b) == [from_node_id |-> a, to_node_id |-> b]

\* the connection lists of at most k distinct rows over the pairs P
RECURSIVE ConnLists(_, _)
ConnLists(P, k) ==
    IF k = 0 THEN {<<>>}
    ELSE LET S == ConnLists(P, k - 1)
         IN S \cup UNION { {Append(s, p) : p \in P \ Range(s)} :
                               s \in {x \in S : Len(x) = k - 1} }

(***************************************************************************)
(* build_dag, find_root_nodes                                              *)
(***************************************************************************)
\* build_dag, the in-degree map not initialized with 0 for every node
build_dag_NoZeroInit(ns, cs) ==
    LET froms == {cs[i].from_node_id : i \in DOMAIN cs}
        tos == {cs[i].to_node_id : i \in DOMAIN cs}
        succs(a) ==
            LET F[i \in 0..Len(cs)] ==
                    IF i = 0 THEN <<>>
                    ELSE IF cs[i].from_node_id = a
                         THEN Append(F[i - 1], cs[i].to_node_id)
                         ELSE F[i - 1]
            IN F[Len(cs)]
    IN [graph |-> [a \in froms |-> succs(a)],
        in_degree |-> [b \in tos |->
                          Cardinality({i \in DOMAIN cs : cs[i].to_node_id = b})]]

\* graph: from_node_id -> list of to_node_id in connection order, with a key
\* only for the nodes that have an outgoing connection (a defaultdict);
\* in_degree: 0 for every node, +1 for every connection into an id
build_dag(ns, cs) ==
    LET froms == {cs[i].from_node_id : i \in DOMAIN cs}
        tos == {cs[i].to_node_id : i \in DOMAIN cs}
        succs(a) ==
            LET F[i \in 0..Len(cs)] ==
                    IF i = 0 THEN <<>>
                    ELSE IF cs[i].from_node_id = a
                         THEN Append(F[i - 1], cs[i].to_node_id)
                         ELSE F[i - 1]
            IN F[Len(cs)]
    IN [graph |-> [a \in froms |-> succs(a)],
        in_degree |-> [b \in {ns[i].id : i \in DOMAIN ns} \cup tos |->
                          Cardinality({i \in DOMAIN cs : cs[i].to_node_id = b})]]

\* graph.get(node_id, [])
GraphGet(graph, a) == IF a \in DOMAIN graph THEN graph[a] ELSE <<>>

\* find_root_nodes, the roots in reverse node order
find_root_nodes_Reversed(ns, in_degree) ==
    LET deg(i) == IF ns[i].id \in DOMAIN in_degree THEN in_degree[ns[i].id] ELSE 0
        F[i \in 0..Len(ns)] ==
            IF i = 0 THEN <<>>
            ELSE IF deg(i) = 0 THEN <<ns[i]>> \o F[i - 1] ELSE F[i - 1]
    IN F[Len(ns)]

\* the nodes whose in-degree is 0, in node order
find_root_nodes(ns, in_degree) ==
    LET deg(i) == IF ns[i].id \in DOMAIN in_degree THEN in_degree[ns[i].id] ELSE 0
        F[i \in 0..Len(ns)] ==
            IF i = 0 THEN <<>>
            ELSE IF deg(i) = 0 THEN Append(F[i - 1], ns[i]) ELSE F[i - 1]
    IN F[Len(ns)]

(***************************************************************************)
(* Node dispatch                                                           *)
(***************************************************************************)
Result(success, output, error, message) ==
    [success |-> success, output |-> output, error |-> error, message |-> message]

\* result.get(key): None for a key the dict does not hold
Get(r, key) == IF r[key] = Absent THEN None ELSE r[key]

\* a call that returned r, a call that raised an exception with text e
Ok(r) == [raised |-> FALSE, result |-> r]
Raised(e) == [raised |-> TRUE, error |-> e]

execute_trigger_node(node, input_data, parameters) ==
    Ok(Result(TRUE, input_data, Absent, RawText("Trigger node executed successfully")))

\* execute_command_node, the exit code of the process not looked at
execute_command_node_IgnoresExit(node, input_data, parameters, proc) ==
    IF ~IsDict(parameters)
    THEN Raised("'int' object is not subscriptable")
    ELSE IF "command" \notin DOMAIN parameters.d
    THEN Raised("'command'")
    ELSE IF proc.raises
    THEN Raised(proc.stderr.s)
    ELSE Ok(Result(TRUE, proc.stdout, Absent,
                   RawText("Command node executed successfully")))

\* proc is what subprocess.run did: it raised (raises, with the text of the
\* exception in stderr), or it returned returncode, stdout, stderr.
\* parameters['command'] raises for parameters that are no mapping (the
\* TypeError of a number) or hold no such key (KeyError).
execute_command_node(node, input_data, parameters, proc) ==
    IF ~IsDict(parameters)
    THEN Raised("'int' object is not subscriptable")
    ELSE IF "command" \notin DOMAIN parameters.d
    THEN Raised("'command'")
    ELSE IF proc.raises
    THEN Raised(proc.stderr.s)
    ELSE IF proc.returncode # 0
    THEN Ok(Result(FALSE, Absent, proc.stderr, Absent))
    ELSE Ok(Result(TRUE, proc.stdout, Absent,
                   RawText("Command node executed successfully")))

\* execute_constant_node, the parameters laid over the input
execute_constant_node_Merged(node, input_data, parameters) ==
    Ok(Result(TRUE,
              IF IsDict(input_data) /\ IsDict(parameters)
              THEN Dict(Update(input_data.d, parameters.d)) ELSE parameters,
              Absent, RawText("Constant node executed successfully")))

execute_constant_node(node, input_data, parameters) ==
    Ok(Result(TRUE, parameters, Absent, RawText("Constant node executed successfully")))

\* execute_llm_node, the parameters returned in place of the input
execute_llm_node_Parameters(node, input_data, parameters) ==
    Ok(Result(TRUE, parameters, Absent, RawText("LLM node executed successfully")))

execute_llm_node(node, input_data, parameters) ==
    Ok(Result(TRUE, input_data, Absent, RawText("LLM node executed successfully")))

execute_conditional_node(node, input_data, parameters) ==
    Ok(Result(TRUE, input_data, Absent, RawText("Conditional node executed successfully")))

execute_manual_node(node, input_data, parameters) ==
    Ok(Result(TRUE, input_data, Absent, RawText("Manual node executed successfully")))

\* execute_node, without the try block: what a handler raises is raised on
execute_node_Propagates(node, input_data, proc) ==
    LET text == node.parameters
        decoded == IF Truthy(text) THEN json_loads(text) ELSE [ok |-> TRUE, v |-> EmptyDict]
        parameters == decoded.v
        ty == node.type
        call ==
            CASE ty = "Trigger" -> execute_trigger_node(node, input_data, parameters)
              [] ty = "Command" -> execute_command_node(node, input_data, parameters, proc)
              [] ty = "Constant" -> execute_constant_node(node, input_data, parameters)
              [] ty = "LLM" -> execute_llm_node(node, input_data, parameters)
              [] ty = "Conditional" -> execute_conditional_node(node, input_data, parameters)
              [] ty = "Manual" -> execute_manual_node(node, input_data, parameters)
              [] OTHER -> Ok(Result(FALSE, None, RawText("Unknown node type: " \o ty), Absent))
    IN IF ~decoded.ok THEN Raised("JSONDecodeError") ELSE call

\* execute_node, a type it does not know handled as a placeholder
execute_node_DefaultPassthrough(node, input_data, proc) ==
    LET text == node.parameters
        decoded == IF Truthy(text) THEN json_loads(text) ELSE [ok |-> TRUE, v |-> EmptyDict]
        parameters == decoded.v
        ty == node.type
        call ==
            CASE ty = "Trigger" -> execute_trigger_node(node, input_data, parameters)
              [] ty = "Command" -> execute_command_node(node, input_data, parameters, proc)
              [] ty = "Constant" -> execute_constant_node(node, input_data, parameters)
              [] ty = "LLM" -> execute_llm_node(node, input_data, parameters)
              [] ty = "Conditional" -> execute_conditional_node(node, input_data, parameters)
              [] OTHER -> execute_manual_node(node, input_data, parameters)
    IN IF ~decoded.ok
       THEN Raised("JSONDecodeError")
       ELSE IF call.raised
       THEN Ok(Result(FALSE, None, RawText(call.error), Absent))
       ELSE call

\* The parameters text is decoded before the try block: a text that does not
\* decode makes execute_node itself raise.  Inside the try block the handler
\* of the node's type runs; whatever it raises, and the ValueError of an
\* unknown type, becomes a failed result.
execute_node(node, input_data, proc) ==
    LET text == node.parameters
        decoded == IF Truthy(text) THEN json_loads(text) ELSE [ok |-> TRUE, v |-> EmptyDict]
        parameters == decoded.v
        ty == node.type
        call ==
            CASE ty = "Trigger" -> execute_trigger_node(node, input_data, parameters)
              [] ty = "Command" -> execute_command_node(node, input_data, parameters, proc)
              [] ty = "Constant" -> execute_constant_node(node, input_data, parameters)
              [] ty = "LLM" -> execute_llm_node(node, input_data, parameters)
              [] ty = "Conditional" -> execute_conditional_node(node, input_data, parameters)
              [] ty = "Manual" -> execute_manual_node(node, input_data, parameters)
              [] OTHER -> Raised("Unknown node type: " \o ty)
    IN IF ~decoded.ok
       THEN Raised("JSONDecodeError")
       ELSE IF call.raised
       THEN Ok(Result(FALSE, None, RawText(call.error), Absent))
       ELSE call

\* what the spawned process of a Command node can do
Stdouts == {JsonText(Dict([a |-> RawText("v2")])), JsonText(PyInt(5)), RawText("hello")}

NoProc == [raises |-> FALSE, returncode |-> 0, stdout |-> RawText(""), stderr |-> RawText("")]

ProcOutcomes(node) ==
    IF node.type = "Command"
    THEN {[raises |-> FALSE, returncode |-> 0, stdout |-> o, stderr |-> RawText("")] :
              o \in Stdouts}
         \cup {[raises |-> FALSE, returncode |-> 1, stdout |-> RawText(""),
                stderr |-> RawText("boom")]}
    ELSE {NoProc}

(***************************************************************************)
(* The Executions table                                                    *)
(***************************************************************************)
Now == RawText("CURRENT_TIMESTAMP")

\* json.dumps(x) if x else None
DumpsOrNull(x) == IF Truthy(x) THEN json_dumps(x) ELSE None

\* create_execution_record, every row stored with run index 1
create_execution_record_FirstIndex(E, w, node_id, run_index, status, in_data) ==
    Append(E, [workflow_id |-> w, node_id |-> node_id, run_index |-> 1,
               status |-> status, input |-> DumpsOrNull(in_data),
               output |-> DumpsOrNull(None), error |-> None, ended_at |-> None])

\* INSERT INTO Executions; the id of the new row is its position
create_execution_record(E, w, node_id, run_index, status, in_data) ==
    Append(E, [workflow_id |-> w, node_id |-> node_id, run_index |-> run_index,
               status |-> status, input |-> DumpsOrNull(in_data),
               output |-> DumpsOrNull(None), error |-> None, ended_at |-> None])

\* update_execution_record, the status column left as it is
update_execution_record_KeepStatus(E, id, status, output_data, error) ==
    [E EXCEPT ![id] = [@ EXCEPT !.output = DumpsOrNull(output_data),
                                !.error = error,
                                !.ended_at = Now]]

\* update_execution_record, every row of the node of the workflow updated
update_execution_record_EveryRun(E, id, status, output_data, error) ==
    [i \in DOMAIN E |->
        IF E[i].workflow_id = E[id].workflow_id /\ E[i].node_id = E[id].node_id
        THEN [E[i] EXCEPT !.status = status,
                          !.output = DumpsOrNull(output_data),
                          !.error = error,
                          !.ended_at = Now]
        ELSE E[i]]

\* UPDATE Executions SET status, output, error, ended_at WHERE id = execution_id
update_execution_record(E, id, status, output_data, error) ==
    [E EXCEPT ![id] = [@ EXCEPT !.status = status,
                                !.output = DumpsOrNull(output_data),
                                !.error = error,
                                !.ended_at = Now]]

Max(S) == CHOOSE m \in S : \A x \in S : x <= m

\* get_next_run_index, the rows of every node of the workflow counted
get_next_run_index_PerWorkflow(E, w, n) ==
    LET rows == {i \in DOMAIN E : E[i].workflow_id = w}
    IN IF rows = {} THEN 1 ELSE Max({E[i].run_index : i \in rows}) + 1

\* SELECT COALESCE(MAX(run_index), 0) + 1 WHERE workflow_id = w AND node_id = n
get_next_run_index(E, w, n) ==
    LET rows == {i \in DOMAIN E : E[i].workflow_id = w /\ E[i].node_id = n}
    IN IF rows = {} THEN 1 ELSE Max({E[i].run_index : i \in rows}) + 1

(***************************************************************************)
(* The scheduler's helpers                                                 *)
(***************************************************************************)
\* OrEmpty, the supplied input dropped
OrEmpty_Always(x) == EmptyDict

\* initial_input or {}
OrEmpty(x) == IF Truthy(x) THEN x ELSE EmptyDict

\* DependenciesMet, one completed predecessor being enough
DependenciesMet_Some(cs, node_id, completed) ==
    \E i \in DOMAIN cs :
        cs[i].to_node_id = node_id /\ cs[i].from_node_id \in completed

\* dependencies_met: every connection into the node comes from a completed node
DependenciesMet(cs, node_id, completed) ==
    \A i \in DOMAIN cs :
        cs[i].to_node_id = node_id => cs[i].from_node_id \in completed

\* what the scheduler makes of a predecessor's output before it merges it:
\* a str is parsed, a str that does not parse is wrapped under raw_output,
\* anything else that is no dict is wrapped under value
NormalizeOutput(output) ==
    IF IsStr(output)
    THEN IF json_loads(output).ok
         THEN json_loads(output).v
         ELSE Dict([raw_output |-> output])
    ELSE IF ~IsDict(output)
    THEN Dict([value |-> output])
    ELSE output

\* Contributes, without the test of the predecessor's success
Contributes_AnyResult(cs, i, node_id, results) ==
    /\ cs[i].to_node_id = node_id
    /\ cs[i].from_node_id \in DOMAIN results

\* does the connection cs[i] contribute to the input of node_id
Contributes(cs, i, node_id, results) ==
    /\ cs[i].to_node_id = node_id
    /\ cs[i].from_node_id \in DOMAIN results
    /\ results[cs[i].from_node_id].success

\* input_data.update(output): a TypeError for an output that is no mapping
DictUpdate(acc, output) ==
    IF IsDict(output) THEN Ok(Dict(Update(acc.d, output.d))) ELSE Raised("TypeError")

\* the input of a non-root node: the outputs of its successful predecessors,
\* merged in connection order
MergeInput(cs, node_id, results) ==
    LET F[i \in 0..Len(cs)] ==
            IF i = 0 THEN Ok(EmptyDict)
            ELSE IF F[i - 1].raised THEN F[i - 1]
            ELSE IF Contributes(cs, i, node_id, results)
            THEN LET prev_result == results[cs[i].from_node_id]
                     output == IF prev_result.output = Absent
                               THEN EmptyDict ELSE prev_result.output
                 IN DictUpdate(F[i - 1].result, NormalizeOutput(output))
            ELSE F[i - 1]
    IN F[Len(cs)]

\* Enqueue, only the first successor appended
Enqueue_FirstOnly(q, graph, node_id, completed, lookup) ==
    LET succs == GraphGet(graph, node_id)
    IN Ok(IF succs # <<>> /\ succs[1] \notin completed THEN Append(q, succs[1]) ELSE q)

\* for next_node_id in graph.get(node_id, []): the successors that are not
\* completed are appended to the queue, each looked up in node_lookup; an id
\* that node_lookup does not hold ends the loop with KeyError(next_node_id),
\* result being the queue as the loop left it
Enqueue(q, graph, node_id, completed, lookup) ==
    LET succs == GraphGet(graph, node_id)
        F[i \in 0..Len(succs)] ==
            IF i = 0 THEN Ok(q)
            ELSE IF F[i - 1].raised \/ succs[i] \in completed THEN F[i - 1]
            ELSE IF succs[i] \in DOMAIN lookup
            THEN Ok(Append(F[i - 1].result, succs[i]))
            ELSE [raised |-> TRUE, error |-> str(succs[i]), result |-> F[i - 1].result]
    IN F[Len(succs)]

\* the values run_workflow returns
Failure(text) ==
    [success |-> FALSE, error |-> RawText(text), execution_ids |-> Absent,
     results |-> Absent, message |-> Absent]

\* the text of the count-mismatch failure
NotAllExecuted(completed, total) ==
    "Not all nodes could be executed. Completed: " \o str(completed)
        \o ", Total: " \o str(total)

\* Success, the results of the failed dispatches left out
Success_SucceededOnly(ids, results) ==
    [success |-> TRUE, error |-> Absent, execution_ids |-> ids,
     results |-> [n \in {m \in DOMAIN results : results[m].success} |-> results[n]],
     message |-> RawText("Workflow executed successfully")]

Success(ids, results) ==
    [success |-> TRUE, error |-> Absent, execution_ids |-> ids, results |-> results,
     message |-> RawText("Workflow executed successfully")]

(***************************************************************************)
(* State                                                                   *)
(***************************************************************************)
VARIABLES
    wf_exists,           \* the Workflows table holds the workflow
    nodes,               \* its Node rows, ordered by id
    connections,         \* its Connections rows, in enumeration order
    Executions,          \* the Executions table (the ledger)
    pc,                  \* where run_workflow stands
    workflow_id,         \* the arguments of the call
    initial_input,
    ledger_before,       \* the Executions table as the call found it
    graph,               \* what build_dag returned
    in_degree,
    root_nodes,          \* what find_root_nodes returned
    root_index,          \* position of the root loop in root_nodes
    queue,               \* node ids, front first
    completed_nodes,
    execution_results,   \* node id -> dispatch result
    node_execution_ids,  \* node id -> id of its Executions row
    current_node,        \* the node being dispatched
    input_data,          \* the input handed to execute_node
    execution_id,        \* the row created for current_node
    ret,                 \* the value run_workflow returned
    WorkflowExecutions,  \* the tables of the executor of model/workflow.py
    NodeExecutions,
    workflow_execution_id,  \* the WorkflowExecutions row of its call
    flat_run             \* what a call of the flat-ledger executor left, kept
                         \* when the other executor is called after it

catalog == <<wf_exists, nodes, connections>>
normalized == <<WorkflowExecutions, NodeExecutions, workflow_execution_id>>
args == <<workflow_id, initial_input, ledger_before>>
locals == <<graph, in_degree, root_nodes, root_index, queue, completed_nodes, execution_results,
            node_execution_ids, current_node, input_data, execution_id>>
vars == <<wf_exists, nodes, connections, Executions, pc, workflow_id, initial_input,
          ledger_before,
          graph, in_degree, root_nodes, root_index, queue, completed_nodes, execution_results, node_execution_ids,
          current_node, input_data, execution_id, ret,
          WorkflowExecutions, NodeExecutions, workflow_execution_id, flat_run>>

InitialInputs == {None, Dict([a |-> RawText("v1")])}

\* the Node row of another workflow: node 3, the Trigger of workflow 2
ForeignNode == [id |-> 3, type |-> "Trigger", parameters |-> JsonText(EmptyDict)]

\* node_lookup, built from every Node row that a fetched connection names
node_lookup_EveryNode ==
    [id \in {nodes[i].id : i \in DOMAIN nodes} \cup {ForeignNode.id} |->
        IF id = ForeignNode.id THEN ForeignNode
        ELSE nodes[CHOOSE i \in DOMAIN nodes : nodes[i].id = id]]

\* {node['id']: node for node in nodes}
node_lookup ==
    [id \in {nodes[i].id : i \in DOMAIN nodes} |->
        nodes[CHOOSE i \in DOMAIN nodes : nodes[i].id = id]]

\* the catalog holds a workflow of n nodes of the given kinds
CatalogOf(n, kinds) ==
    /\ nodes \in NodeLists(n, kinds)
    /\ connections \in ConnLists({Conn(a, b) : a, b \in 1..n}, MaxConns)

Init ==
    /\ wf_exists \in BOOLEAN
       \* the workflows the model runs: up to three nodes of the basic kinds,
       \* and up to two nodes of every kind
    /\ \/ \E n \in 0..3 : CatalogOf(n, BasicKinds)
       \/ \E n \in 1..2 : CatalogOf(n, AllKinds)
    /\ (~wf_exists => nodes = <<>>)
    /\ Executions = <<>>
    /\ pc = "idle"
    /\ workflow_id = 0
    /\ initial_input = None
    /\ ledger_before = <<>>
    /\ graph = <<>>
    /\ in_degree = <<>>
    /\ root_nodes = <<>>
    /\ root_index = 0
    /\ queue = <<>>
    /\ completed_nodes = {}
    /\ execution_results = <<>>
    /\ node_execution_ids = <<>>
    /\ current_node = 0
    /\ input_data = None
    /\ execution_id = 0
    /\ ret = None
    /\ WorkflowExecutions = <<>>
    /\ NodeExecutions = <<>>
    /\ workflow_execution_id = 0
    /\ flat_run = None

(***************************************************************************)
(* run_workflow                                                            *)
(***************************************************************************)
Return(r) ==
    /\ ret' = r
    /\ pc' = "done"

\* Unexpected, the exception raised on to the caller of run_workflow
Unexpected_Propagates(e) ==
    /\ ret' = Raised(e)
    /\ pc' = "done"

\* the except clause of run_workflow
Unexpected(e) == Return(Failure("Unexpected error during workflow execution: " \o e))

\* RunNotFound, the missing workflow met by the except clause
RunNotFound_Unexpected(w, inp) ==
    /\ pc = "idle"
    /\ ~wf_exists
    /\ workflow_id' = w
    /\ initial_input' = inp
    /\ ledger_before' = Executions
    /\ Unexpected("'NoneType' object is not subscriptable")
    /\ UNCHANGED <<catalog, normalized, flat_run, Executions, locals>>

\* RunNotFound, a workflow-level row written for the failed call
RunNotFound_Recorded(w, inp) ==
    /\ pc = "idle"
    /\ ~wf_exists
    /\ workflow_id' = w
    /\ initial_input' = inp
    /\ ledger_before' = Executions
    /\ Return(Failure("Workflow " \o str(w) \o " not found"))
    /\ Executions' = create_execution_record(Executions, w, 0, 1, "failed", None)
    /\ UNCHANGED <<catalog, normalized, flat_run, locals>>

\* fetch_workflow found no such workflow
RunNotFound(w, inp) ==
    /\ pc = "idle"
    /\ ~wf_exists
    /\ workflow_id' = w
    /\ initial_input' = inp
    /\ ledger_before' = Executions
    /\ Return(Failure("Workflow " \o str(w) \o " not found"))
    /\ UNCHANGED <<catalog, normalized, flat_run, Executions, locals>>

\* RunNoNodes, the empty node list met by the test for root nodes only
RunNoNodes_NoRoots(w, inp) ==
    /\ pc = "idle"
    /\ wf_exists
    /\ nodes = <<>>
    /\ workflow_id' = w
    /\ initial_input' = inp
    /\ ledger_before' = Executions
    /\ Return(Failure("No root nodes found for workflow " \o str(w)))
    /\ UNCHANGED <<catalog, normalized, flat_run, Executions, locals>>

RunNoNodes(w, inp) ==
    /\ pc = "idle"
    /\ wf_exists
    /\ nodes = <<>>
    /\ workflow_id' = w
    /\ initial_input' = inp
    /\ ledger_before' = Executions
    /\ Return(Failure("No nodes found for workflow " \o str(w)))
    /\ UNCHANGED <<catalog, normalized, flat_run, Executions, locals>>

\* RunNoRoots, the empty root list met by the count of the completed nodes
RunNoRoots_CountMismatch(w, inp) ==
    /\ pc = "idle"
    /\ wf_exists
    /\ nodes # <<>>
    /\ LET dag == build_dag(nodes, connections)
           roots == find_root_nodes(nodes, dag.in_degree)
       IN /\ roots = <<>>
          /\ graph' = dag.graph
          /\ in_degree' = dag.in_degree
          /\ root_nodes' = roots
    /\ workflow_id' = w
    /\ initial_input' = inp
    /\ ledger_before' = Executions
    /\ Return(Failure(NotAllExecuted(0, Len(nodes))))
    /\ UNCHANGED <<catalog, normalized, flat_run, Executions, root_index, queue, completed_nodes,
                   execution_results, node_execution_ids, current_node, input_data,
                   execution_id>>

RunNoRoots(w, inp) ==
    /\ pc = "idle"
    /\ wf_exists
    /\ nodes # <<>>
    /\ LET dag == build_dag(nodes, connections)
           roots == find_root_nodes(nodes, dag.in_degree)
       IN /\ roots = <<>>
          /\ graph' = dag.graph
          /\ in_degree' = dag.in_degree
          /\ root_nodes' = roots
    /\ workflow_id' = w
    /\ initial_input' = inp
    /\ ledger_before' = Executions
    /\ Return(Failure("No root nodes found for workflow " \o str(w)))
    /\ UNCHANGED <<catalog, normalized, flat_run, Executions, root_index, queue, completed_nodes,
                   execution_results, node_execution_ids, current_node, input_data,
                   execution_id>>

\* RunBegin, the queue starting as the list of all nodes
RunBegin_QueueAll(w, inp) ==
    /\ pc = "idle"
    /\ wf_exists
    /\ nodes # <<>>
    /\ LET dag == build_dag(nodes, connections)
           roots == find_root_nodes(nodes, dag.in_degree)
       IN /\ roots # <<>>
          /\ graph' = dag.graph
          /\ in_degree' = dag.in_degree
          /\ root_nodes' = roots
          /\ queue' = [i \in 1..Len(nodes) |-> nodes[i].id]
    /\ workflow_id' = w
    /\ initial_input' = inp
    /\ ledger_before' = Executions
    /\ execution_results' = <<>>
    /\ completed_nodes' = {}
    /\ node_execution_ids' = <<>>
    /\ root_index' = 1
    /\ pc' = "root_create"
    /\ UNCHANGED <<catalog, normalized, flat_run, Executions, current_node, input_data, execution_id, ret>>

\* the DAG has a root: the queue starts as the list of the roots
RunBegin(w, inp) ==
    /\ pc = "idle"
    /\ wf_exists
    /\ nodes # <<>>
    /\ LET dag == build_dag(nodes, connections)
           roots == find_root_nodes(nodes, dag.in_degree)
       IN /\ roots # <<>>
          /\ graph' = dag.graph
          /\ in_degree' = dag.in_degree
          /\ root_nodes' = roots
          /\ queue' = [i \in 1..Len(roots) |-> roots[i].id]
    /\ workflow_id' = w
    /\ initial_input' = inp
    /\ ledger_before' = Executions
    /\ execution_results' = <<>>
    /\ completed_nodes' = {}
    /\ node_execution_ids' = <<>>
    /\ root_index' = 1
    /\ pc' = "root_create"
    /\ UNCHANGED <<catalog, normalized, flat_run, Executions, current_node, input_data, execution_id, ret>>

\* root loop: the run index and the running record of the next root
RootCreate ==
    /\ pc = "root_create"
    /\ LET root_node == root_nodes[root_index]
           run_index == get_next_run_index(Executions, workflow_id, root_node.id)
       IN /\ Executions' = create_execution_record(Executions, workflow_id, root_node.id,
                                                   run_index, "running",
                                                   OrEmpty(initial_input))
          /\ execution_id' = Len(Executions) + 1
          /\ node_execution_ids' = Put(node_execution_ids, root_node.id, Len(Executions) + 1)
          /\ current_node' = root_node.id
          /\ input_data' = OrEmpty(initial_input)
    /\ pc' = "root_execute"
    /\ UNCHANGED <<catalog, normalized, flat_run, args, graph, in_degree, root_nodes, root_index, queue,
                   completed_nodes, execution_results, ret>>

\* Finalize, the record of a failed dispatch left as it is
Finalize_SkipFailed(E, id, result) ==
    IF result.success
    THEN update_execution_record(E, id, "completed", result.output, None)
    ELSE E

\* the record of a dispatched node after the dispatch returned result
Finalize(E, id, result) ==
    IF result.success
    THEN update_execution_record(E, id, "completed", result.output, None)
    ELSE update_execution_record(E, id, "failed", None, Get(result, "error"))

\* AfterDispatch, the successors of a failed node not enqueued
AfterDispatch_DropOnFailure(result) ==
    /\ execution_results' = Put(execution_results, current_node, result)
    /\ completed_nodes' = completed_nodes \cup {current_node}
    /\ Executions' = Finalize(Executions, execution_id, result)
    /\ queue' = IF result.success
                THEN Enqueue(queue, graph, current_node,
                             completed_nodes \cup {current_node}, node_lookup).result
                ELSE queue

\* the enqueue loop after the dispatch of current_node ends with a KeyError
EnqueueRaises ==
    Enqueue(queue, graph, current_node, completed_nodes \cup {current_node},
            node_lookup).raised
EnqueueError ==
    Enqueue(queue, graph, current_node, completed_nodes \cup {current_node},
            node_lookup).error

\* what both loops do once execute_node returned: store the result, mark the
\* node completed, finalize its record, enqueue its successors
AfterDispatch(result) ==
    /\ execution_results' = Put(execution_results, current_node, result)
    /\ completed_nodes' = completed_nodes \cup {current_node}
    /\ Executions' = Finalize(Executions, execution_id, result)
    /\ queue' = Enqueue(queue, graph, current_node,
                         completed_nodes \cup {current_node}, node_lookup).result

\* root loop: dispatch the root, then go on with the next root or the queue
RootExecute ==
    /\ pc = "root_execute"
    /\ \E proc \in ProcOutcomes(node_lookup[current_node]) :
       LET call == execute_node(node_lookup[current_node], input_data, proc)
       IN IF call.raised
          THEN /\ Unexpected(call.error)
               /\ UNCHANGED <<Executions, root_index, queue, completed_nodes,
                              execution_results>>
          ELSE /\ AfterDispatch(call.result)
               /\ IF EnqueueRaises
                  THEN /\ Unexpected(EnqueueError)
                       /\ UNCHANGED root_index
                  ELSE /\ root_index' = root_index + 1
                       /\ pc' = IF root_index < Len(root_nodes)
                                THEN "root_create" ELSE "queue"
                       /\ UNCHANGED ret
    /\ UNCHANGED <<catalog, normalized, flat_run, args, graph, in_degree, root_nodes, node_execution_ids,
                   current_node, input_data, execution_id>>

\* PopCompleted, the popped node dispatched again as a ready node
PopCompleted_Redispatch ==
    /\ pc = "queue"
    /\ queue # <<>>
    /\ Head(queue) \in completed_nodes
    /\ LET node_id == Head(queue)
           merged == MergeInput(connections, node_id, execution_results)
           run_index == get_next_run_index(Executions, workflow_id, node_id)
       IN IF merged.raised
          THEN /\ Unexpected(merged.error)
               /\ current_node' = node_id
               /\ UNCHANGED <<Executions, node_execution_ids, input_data, execution_id>>
          ELSE /\ Executions' = create_execution_record(Executions, workflow_id, node_id,
                                                        run_index, "running", merged.result)
               /\ execution_id' = Len(Executions) + 1
               /\ node_execution_ids' = Put(node_execution_ids, node_id, Len(Executions) + 1)
               /\ current_node' = node_id
               /\ input_data' = merged.result
               /\ pc' = "execute"
               /\ UNCHANGED ret
    /\ queue' = Tail(queue)
    /\ UNCHANGED <<catalog, normalized, flat_run, args, graph, in_degree, root_nodes, root_index,
                   completed_nodes, execution_results>>

\* queue loop: the popped node is completed already
PopCompleted ==
    /\ pc = "queue"
    /\ queue # <<>>
    /\ Head(queue) \in completed_nodes
    /\ queue' = Tail(queue)
    /\ UNCHANGED <<catalog, normalized, flat_run, args, Executions, pc, graph, in_degree, root_nodes,
                   root_index, completed_nodes,
                   execution_results, node_execution_ids, current_node, input_data,
                   execution_id, ret>>

\* PopNotReady, the popped node not put back
PopNotReady_Dropped ==
    /\ pc = "queue"
    /\ queue # <<>>
    /\ Head(queue) \notin completed_nodes
    /\ ~DependenciesMet(connections, Head(queue), completed_nodes)
    /\ queue' = Tail(queue)
    /\ UNCHANGED <<catalog, normalized, flat_run, args, Executions, pc, graph, in_degree, root_nodes,
                   root_index, completed_nodes,
                   execution_results, node_execution_ids, current_node, input_data,
                   execution_id, ret>>

\* queue loop: a predecessor of the popped node is not completed
PopNotReady ==
    /\ pc = "queue"
    /\ queue # <<>>
    /\ Head(queue) \notin completed_nodes
    /\ ~DependenciesMet(connections, Head(queue), completed_nodes)
    /\ queue' = Append(Tail(queue), Head(queue))
    /\ UNCHANGED <<catalog, normalized, flat_run, args, Executions, pc, graph, in_degree, root_nodes,
                   root_index, completed_nodes,
                   execution_results, node_execution_ids, current_node, input_data,
                   execution_id, ret>>

\* queue loop: the popped node is ready; its input is merged and its running
\* record created (a merge that raises ends the run in the except clause)
PopReady ==
    /\ pc = "queue"
    /\ queue # <<>>
    /\ Head(queue) \notin completed_nodes
    /\ DependenciesMet(connections, Head(queue), completed_nodes)
    /\ LET node_id == Head(queue)
           merged == MergeInput(connections, node_id, execution_results)
           run_index == get_next_run_index(Executions, workflow_id, node_id)
       IN IF merged.raised
          THEN /\ Unexpected(merged.error)
               /\ current_node' = node_id
               /\ UNCHANGED <<Executions, node_execution_ids, input_data, execution_id>>
          ELSE /\ Executions' = create_execution_record(Executions, workflow_id, node_id,
                                                        run_index, "running", merged.result)
               /\ execution_id' = Len(Executions) + 1
               /\ node_execution_ids' = Put(node_execution_ids, node_id, Len(Executions) + 1)
               /\ current_node' = node_id
               /\ input_data' = merged.result
               /\ pc' = "execute"
               /\ UNCHANGED ret
    /\ queue' = Tail(queue)
    /\ UNCHANGED <<catalog, normalized, flat_run, args, graph, in_degree, root_nodes, root_index,
                   completed_nodes, execution_results>>

\* queue loop: dispatch the node
Execute ==
    /\ pc = "execute"
    /\ \E proc \in ProcOutcomes(node_lookup[current_node]) :
       LET call == execute_node(node_lookup[current_node], input_data, proc)
       IN IF call.raised
          THEN /\ Unexpected(call.error)
               /\ UNCHANGED <<Executions, queue, completed_nodes, execution_results>>
          ELSE /\ AfterDispatch(call.result)
               /\ IF EnqueueRaises
                  THEN Unexpected(EnqueueError)
                  ELSE /\ pc' = "queue"
                       /\ UNCHANGED ret
    /\ UNCHANGED <<catalog, normalized, flat_run, args, graph, in_degree, root_nodes, root_index,
                   node_execution_ids, current_node, input_data, execution_id>>

\* Finish, success only when every dispatch succeeded
Finish_AllSucceeded ==
    /\ pc = "queue"
    /\ queue = <<>>
    /\ IF \/ Cardinality(completed_nodes) # Len(nodes)
          \/ \E n \in DOMAIN execution_results : ~execution_results[n].success
       THEN Return(Failure(NotAllExecuted(Cardinality(completed_nodes), Len(nodes))))
       ELSE Return(Success(node_execution_ids, execution_results))
    /\ UNCHANGED <<catalog, normalized, flat_run, args, Executions, locals>>

\* the queue is empty: all nodes completed, or the count mismatch
Finish ==
    /\ pc = "queue"
    /\ queue = <<>>
    /\ IF Cardinality(completed_nodes) # Len(nodes)
       THEN Return(Failure(NotAllExecuted(Cardinality(completed_nodes), Len(nodes))))
       ELSE Return(Success(node_execution_ids, execution_results))
    /\ UNCHANGED <<catalog, normalized, flat_run, args, Executions, locals>>

Next ==
    \/ \E w \in WorkflowIds, inp \in InitialInputs :
          \/ RunNotFound(w, inp)
          \/ RunNoNodes(w, inp)
          \/ RunNoRoots(w, inp)
          \/ RunBegin(w, inp)
    \/ RootCreate
    \/ RootExecute
    \/ PopCompleted
    \/ PopNotReady
    \/ PopReady
    \/ Execute
    \/ Finish

Spec == Init /\ [][Next]_vars

(***************************************************************************)
(* Repeated runs: run_workflow is called again on the same workflow and    *)
(* finds the Executions rows of the earlier calls.  The table may also     *)
(* hold a row of another workflow from the start.                          *)
(***************************************************************************)
\* Bound of the repeated runs: no new call once a run index reached it.
MaxRuns == 2

\* the row that a run of workflow 2, a single Trigger node 3 without initial
\* input, left in the table
OtherWorkflowRow ==
    [workflow_id |-> 2, node_id |-> 3, run_index |-> 1, status |-> "completed",
     input |-> None, output |-> None, error |-> None, ended_at |-> Now]

\* the catalogs of the repeated runs: up to two nodes of the basic kinds
InitRuns ==
    /\ wf_exists \in BOOLEAN
    /\ \E n \in 0..2 : CatalogOf(n, BasicKinds)
    /\ (~wf_exists => nodes = <<>>)
    /\ Executions \in {<<>>, <<OtherWorkflowRow>>}
    /\ pc = "idle"
    /\ workflow_id = 0
    /\ initial_input = None
    /\ ledger_before = Executions
    /\ graph = <<>>
    /\ in_degree = <<>>
    /\ root_nodes = <<>>
    /\ root_index = 0
    /\ queue = <<>>
    /\ completed_nodes = {}
    /\ execution_results = <<>>
    /\ node_execution_ids = <<>>
    /\ current_node = 0
    /\ input_data = None
    /\ execution_id = 0
    /\ ret = None
    /\ WorkflowExecutions = <<>>
    /\ NodeExecutions = <<>>
    /\ workflow_execution_id = 0
    /\ flat_run = None

\* the caller has the returned value; the executor is ready for the next call
RunAgain ==
    /\ pc = "done"
    /\ \A i \in DOMAIN Executions : Executions[i].run_index < MaxRuns
    /\ pc' = "idle"
    /\ workflow_id' = 0
    /\ initial_input' = None
    /\ ledger_before' = Executions
    /\ graph' = <<>>
    /\ in_degree' = <<>>
    /\ root_nodes' = <<>>
    /\ root_index' = 0
    /\ queue' = <<>>
    /\ completed_nodes' = {}
    /\ execution_results' = <<>>
    /\ node_execution_ids' = <<>>
    /\ current_node' = 0
    /\ input_data' = None
    /\ execution_id' = 0
    /\ ret' = None
    /\ UNCHANGED <<catalog, normalized, flat_run, Executions>>

NextRuns == Next \/ RunAgain

SpecRuns == InitRuns /\ [][NextRuns]_vars

(***************************************************************************)
(* A catalog that breaks the rule that both ends of a connection belong to *)
(* one workflow: fetch_workflow selects the Connections rows whose source  *)
(* is a node of the workflow (JOIN Nodes n1 ... WHERE n1.workflow_id = ?), *)
(* so a row into a node of another workflow is fetched with the others.    *)
(***************************************************************************)
ForeignKinds == BasicKinds \cup {Row("Trigger", RawText("{oops"))}

\* workflows of up to two nodes; a connection leaves a node of the workflow
\* and enters one of its nodes or the node of the other workflow
InitForeign ==
    /\ wf_exists \in BOOLEAN
    /\ \E n \in 0..2 :
          /\ nodes \in NodeLists(n, ForeignKinds)
          /\ connections \in ConnLists({Conn(a, b) : a \in 1..n,
                                                      b \in (1..n) \cup {ForeignNode.id}},
                                        MaxConns)
    /\ (~wf_exists => nodes = <<>>)
    /\ Executions \in {<<>>, <<OtherWorkflowRow>>}
    /\ pc = "idle"
    /\ workflow_id = 0
    /\ initial_input = None
    /\ ledger_before = Executions
    /\ graph = <<>>
    /\ in_degree = <<>>
    /\ root_nodes = <<>>
    /\ root_index = 0
    /\ queue = <<>>
    /\ completed_nodes = {}
    /\ execution_results = <<>>
    /\ node_execution_ids = <<>>
    /\ current_node = 0
    /\ input_data = None
    /\ execution_id = 0
    /\ ret = None
    /\ WorkflowExecutions = <<>>
    /\ NodeExecutions = <<>>
    /\ workflow_execution_id = 0
    /\ flat_run = None

SpecForeign == InitForeign /\ [][Next]_vars

(***************************************************************************)
(* The database fails: a statement of fetch_workflow, get_next_run_index,  *)
(* create_execution_record or update_execution_record raises sqlite3.Error *)
(* (the file is locked, a table is missing).  All of them are called       *)
(* inside the try block of run_workflow.                                   *)
(***************************************************************************)
StoreError == "database is locked"

\* fetch_workflow raises
FetchFails(w, inp) ==
    /\ pc = "idle"
    /\ workflow_id' = w
    /\ initial_input' = inp
    /\ ledger_before' = Executions
    /\ Unexpected(StoreError)
    /\ UNCHANGED <<catalog, normalized, flat_run, Executions, locals>>

\* get_next_run_index or create_execution_record raises: for a root, or for
\* the ready node that the queue loop popped
CreateFails ==
    /\ \/ /\ pc = "root_create"
          /\ UNCHANGED queue
       \/ /\ pc = "queue"
          /\ queue # <<>>
          /\ Head(queue) \notin completed_nodes
          /\ DependenciesMet(connections, Head(queue), completed_nodes)
          /\ ~MergeInput(connections, Head(queue), execution_results).raised
          /\ queue' = Tail(queue)
    /\ Unexpected(StoreError)
    /\ UNCHANGED <<catalog, normalized, flat_run, args, Executions, graph, in_degree, root_nodes, root_index,
                   completed_nodes, execution_results, node_execution_ids, current_node,
                   input_data, execution_id>>

\* update_execution_record raises: the dispatch has returned, its result is
\* stored and the node marked completed, the row stays as it is
UpdateFails ==
    /\ pc \in {"root_execute", "execute"}
    /\ \E proc \in ProcOutcomes(node_lookup[current_node]) :
          LET call == execute_node(node_lookup[current_node], input_data, proc)
          IN /\ ~call.raised
             /\ execution_results' = Put(execution_results, current_node, call.result)
             /\ completed_nodes' = completed_nodes \cup {current_node}
    /\ Unexpected(StoreError)
    /\ UNCHANGED <<catalog, normalized, flat_run, args, Executions, graph, in_degree, root_nodes, root_index,
                   queue, node_execution_ids, current_node, input_data, execution_id>>

NextFaulty ==
    \/ Next
    \/ \E w \in WorkflowIds, inp \in InitialInputs : FetchFails(w, inp)
    \/ CreateFails
    \/ UpdateFails

SpecFaulty == InitForeign /\ [][NextFaulty]_vars

(***************************************************************************)
(* get_next_run_index called on its own, on any content of the table       *)
(***************************************************************************)
\* Bound: the number of rows of the table get_next_run_index is called on.
MaxRows == 3

\* rows of two workflows, two nodes and three run indices
IndexRows ==
    { [workflow_id |-> w, node_id |-> n, run_index |-> r, status |-> "completed",
       input |-> None, output |-> None, error |-> None, ended_at |-> Now] :
         w \in 1..2, n \in 1..2, r \in 1..3 }

InitRunIndex ==
    /\ Executions \in UNION {[1..k -> IndexRows] : k \in 0..MaxRows}
    /\ workflow_id \in 1..2
    /\ current_node \in 1..2
    /\ pc = "get_next_run_index"
    /\ wf_exists = TRUE
    /\ nodes = <<>>
    /\ connections = <<>>
    /\ initial_input = None
    /\ ledger_before = <<>>
    /\ graph = <<>>
    /\ in_degree = <<>>
    /\ root_nodes = <<>>
    /\ root_index = 0
    /\ queue = <<>>
    /\ completed_nodes = {}
    /\ execution_results = <<>>
    /\ node_execution_ids = <<>>
    /\ input_data = None
    /\ execution_id = 0
    /\ ret = None
    /\ WorkflowExecutions = <<>>
    /\ NodeExecutions = <<>>
    /\ workflow_execution_id = 0
    /\ flat_run = None

\* get_next_run_index(workflow_id, current_node) returns
CallGetNextRunIndex ==
    /\ pc = "get_next_run_index"
    /\ ret' = PyInt(get_next_run_index(Executions, workflow_id, current_node))
    /\ pc' = "returned"
    /\ UNCHANGED <<catalog, normalized, flat_run, args, Executions, locals>>

SpecRunIndex == InitRunIndex /\ [][CallGetNextRunIndex]_vars

(***************************************************************************)
(* execute_node called on its own: one node row, any input                 *)
(***************************************************************************)
\* the types of the node rows: the six types of the executor and two others
DispatchTypes ==
    {"Trigger", "Command", "Constant", "LLM", "Conditional", "Manual", "UnknownType", "Webhook"}

\* the parameters texts: JSON documents (mappings and a number), the empty
\* text, and a text that is no JSON document
DispatchParameters ==
    { JsonText(EmptyDict),
      JsonText(Dict([command |-> RawText("cmd")])),
      JsonText(Dict([a |-> RawText("v3")])),
      JsonText(PyInt(5)),
      RawText(""),
      RawText("{oops") }

\* the inputs handed to execute_node
DispatchInputs ==
    {None, EmptyDict, Dict([a |-> RawText("v1")]), Dict([input |-> RawText("test")]),
     PyInt(7), RawText("text")}

\* subprocess.run raised (the working directory does not exist)
SpawnError ==
    [raises |-> TRUE, returncode |-> 0, stdout |-> RawText(""),
     stderr |-> RawText("[Errno 2] No such file or directory")]

DispatchProcs(node) ==
    IF node.type = "Command" THEN ProcOutcomes(node) \cup {SpawnError} ELSE ProcOutcomes(node)

InitDispatch ==
    /\ nodes \in {<<[id |-> 1, type |-> ty, parameters |-> pa]>> :
                     ty \in DispatchTypes, pa \in DispatchParameters}
    /\ current_node = 1
    /\ input_data \in DispatchInputs
    /\ pc = "execute_node"
    /\ wf_exists = TRUE
    /\ connections = <<>>
    /\ Executions = <<>>
    /\ workflow_id = 1
    /\ initial_input = None
    /\ ledger_before = <<>>
    /\ graph = <<>>
    /\ in_degree = <<>>
    /\ root_nodes = <<>>
    /\ root_index = 0
    /\ queue = <<>>
    /\ completed_nodes = {}
    /\ execution_results = <<>>
    /\ node_execution_ids = <<>>
    /\ execution_id = 0
    /\ ret = None
    /\ WorkflowExecutions = <<>>
    /\ NodeExecutions = <<>>
    /\ workflow_execution_id = 0
    /\ flat_run = None

\* execute_node(node, input_data) returns or raises; ret keeps what the
\* process did and what the call gave
CallExecuteNode ==
    /\ pc = "execute_node"
    /\ \E proc \in DispatchProcs(nodes[1]) :
          ret' = [proc |-> proc, call |-> execute_node(nodes[1], input_data, proc)]
    /\ pc' = "returned"
    /\ UNCHANGED <<catalog, normalized, flat_run, args, Executions, locals>>

SpecDispatch == InitDispatch /\ [][CallExecuteNode]_vars

(***************************************************************************)
(* build_dag called on its own: any node list, any connection list         *)
(***************************************************************************)
\* up to three nodes; up to MaxConns connections over the ids 1..3, rows
\* that repeat and rows about ids outside the node list included
InitBuildDag ==
    /\ \E n \in 0..3 : nodes \in NodeLists(n, {Row("Trigger", JsonText(EmptyDict))})
    /\ connections \in UNION {[1..k -> {Conn(a, b) : a, b \in 1..3}] : k \in 0..MaxConns}
    /\ pc = "build_dag"
    /\ wf_exists = TRUE
    /\ Executions = <<>>
    /\ workflow_id = 1
    /\ initial_input = None
    /\ ledger_before = <<>>
    /\ graph = <<>>
    /\ in_degree = <<>>
    /\ root_nodes = <<>>
    /\ root_index = 0
    /\ queue = <<>>
    /\ completed_nodes = {}
    /\ execution_results = <<>>
    /\ node_execution_ids = <<>>
    /\ current_node = 0
    /\ input_data = None
    /\ execution_id = 0
    /\ ret = None
    /\ WorkflowExecutions = <<>>
    /\ NodeExecutions = <<>>
    /\ workflow_execution_id = 0
    /\ flat_run = None

\* graph, in_degree = build_dag(nodes, connections)
CallBuildDag ==
    /\ pc = "build_dag"
    /\ LET dag == build_dag(nodes, connections)
       IN /\ graph' = dag.graph
          /\ in_degree' = dag.in_degree
    /\ pc' = "returned"
    /\ UNCHANGED <<catalog, normalized, flat_run, args, Executions, root_nodes, root_index, queue,
                   completed_nodes, execution_results, node_execution_ids, current_node,
                   input_data, execution_id, ret>>

SpecBuildDag == InitBuildDag /\ [][CallBuildDag]_vars

(***************************************************************************)
(* Two calls of run_workflow on the same workflow, by two processes on one *)
(* database.  Every method of the executor opens its own connection and    *)
(* commits on leaving it, so the statements of the two calls interleave:   *)
(* get_next_run_index, create_execution_record and the dispatch with       *)
(* update_execution_record are steps of their own.  The workflow has no    *)
(* connections: every node is a root and the root loop does all the work.  *)
(* pc, root_index, execution_id and ret (what get_next_run_index returned) *)
(* are kept per process.                                                   *)
(***************************************************************************)
Procs == {1, 2}

\* the Executions table takes the row: the ledger contract lets create store
\* any row, and gives the table no rule that two rows of a node differ in
\* their run index
ExecutionsTakes(E, w, node_id, run_index) == TRUE

InitConcurrent ==
    /\ wf_exists = TRUE
    /\ \E n \in 1..2 : nodes \in NodeLists(n, BasicKinds)
    /\ connections = <<>>
    /\ Executions \in {<<>>, <<OtherWorkflowRow>>}
    /\ pc = [p \in Procs |-> "get_next_run_index"]
    /\ workflow_id = 1
    /\ initial_input \in InitialInputs
    /\ ledger_before = Executions
    /\ graph = <<>>
    /\ in_degree = <<>>
    /\ root_nodes = nodes
    /\ root_index = [p \in Procs |-> 1]
    /\ queue = <<>>
    /\ completed_nodes = {}
    /\ execution_results = <<>>
    /\ node_execution_ids = <<>>
    /\ current_node = 0
    /\ input_data = None
    /\ execution_id = [p \in Procs |-> 0]
    /\ ret = [p \in Procs |-> None]
    /\ WorkflowExecutions = <<>>
    /\ NodeExecutions = <<>>
    /\ workflow_execution_id = 0
    /\ flat_run = None

\* process p: run_index = self.get_next_run_index(workflow_id, root_node['id'])
ProcGetNextRunIndex(p) ==
    /\ pc[p] = "get_next_run_index"
    /\ ret' = [ret EXCEPT ![p] = PyInt(get_next_run_index(Executions, workflow_id,
                                                           root_nodes[root_index[p]].id))]
    /\ pc' = [pc EXCEPT ![p] = "create_execution_record"]
    /\ UNCHANGED <<catalog, normalized, flat_run, args, Executions, graph, in_degree, root_nodes, root_index,
                   queue, completed_nodes, execution_results, node_execution_ids,
                   current_node, input_data, execution_id>>

\* process p: the running row with the run index it was given (a row the
\* table does not take ends the call in the except clause)
ProcCreate(p) ==
    /\ pc[p] = "create_execution_record"
    /\ LET node_id == root_nodes[root_index[p]].id
       IN IF ExecutionsTakes(Executions, workflow_id, node_id, ret[p].n)
          THEN /\ Executions' = create_execution_record(Executions, workflow_id, node_id,
                                                        ret[p].n, "running",
                                                        OrEmpty(initial_input))
               /\ execution_id' = [execution_id EXCEPT ![p] = Len(Executions) + 1]
               /\ pc' = [pc EXCEPT ![p] = "execute_node"]
          ELSE /\ pc' = [pc EXCEPT ![p] = "done"]
               /\ UNCHANGED <<Executions, execution_id>>
    /\ UNCHANGED <<catalog, normalized, flat_run, args, graph, in_degree, root_nodes, root_index,
                   queue, completed_nodes, execution_results, node_execution_ids,
                   current_node, input_data, ret>>

\* process p: the dispatch of the root and the update of its row; then the
\* next root, or the end of the call
ProcExecute(p) ==
    /\ pc[p] = "execute_node"
    /\ LET root_node == root_nodes[root_index[p]]
       IN \E proc \in ProcOutcomes(root_node) :
             LET call == execute_node(root_node, OrEmpty(initial_input), proc)
             IN IF call.raised
                THEN /\ pc' = [pc EXCEPT ![p] = "done"]
                     /\ UNCHANGED <<Executions, root_index>>
                ELSE /\ Executions' = Finalize(Executions, execution_id[p], call.result)
                     /\ root_index' = [root_index EXCEPT ![p] = @ + 1]
                     /\ pc' = [pc EXCEPT ![p] = IF root_index[p] < Len(root_nodes)
                                                THEN "get_next_run_index" ELSE "done"]
    /\ UNCHANGED <<catalog, normalized, flat_run, args, graph, in_degree, root_nodes,
                   queue, completed_nodes, execution_results, node_execution_ids,
                   current_node, input_data, execution_id, ret>>

NextConcurrent ==
    \E p \in Procs :
        \/ ProcGetNextRunIndex(p)
        \/ ProcCreate(p)
        \/ ProcExecute(p)

SpecConcurrent == InitConcurrent /\ [][NextConcurrent]_vars

(***************************************************************************)
(* The normalized-ledger executor of src/model/workflow.py.  Its           *)
(* run_workflow is the scheduler of model/run_workflow.py line by line     *)
(* (fetch_workflow, build_dag, find_root_nodes, execute_node and the node  *)
(* handlers are the same text; the locals are the same), with another      *)
(* ledger: one WorkflowExecutions row per call, created before the try     *)
(* block, and one NodeExecutions row per dispatched node, without a run    *)
(* index.  Its positions are the pc values that begin with "workflow.".    *)
(***************************************************************************)
\* INSERT INTO WorkflowExecutions; the id of the new row is its position
create_workflow_execution(W, w, status, in_data) ==
    Append(W, [workflow_id |-> w, status |-> status, input |-> DumpsOrNull(in_data),
               output |-> DumpsOrNull(None), error |-> None, ended_at |-> None])

\* UPDATE WorkflowExecutions SET status, output, error, ended_at WHERE id = id
update_workflow_execution(W, id, status, output_data, error) ==
    [W EXCEPT ![id] = [@ EXCEPT !.status = status,
                                !.output = DumpsOrNull(output_data),
                                !.error = error,
                                !.ended_at = Now]]

\* INSERT INTO NodeExecutions
create_node_execution(N, wx, node_id, status, in_data) ==
    Append(N, [workflow_execution_id |-> wx, node_id |-> node_id, status |-> status,
               input |-> DumpsOrNull(in_data), output |-> DumpsOrNull(None),
               error |-> None, ended_at |-> None])

\* UPDATE NodeExecutions SET status, output, error, ended_at WHERE id = id
update_node_execution(N, id, status, output_data, error) ==
    [N EXCEPT ![id] = [@ EXCEPT !.status = status,
                                !.output = DumpsOrNull(output_data),
                                !.error = error,
                                !.ended_at = Now]]

\* the values run_workflow of model/workflow.py returns
NormFailure(text) ==
    [success |-> FALSE, error |-> RawText(text), workflow_execution_id |-> Absent,
     node_execution_ids |-> Absent, results |-> Absent, message |-> Absent]

NormSuccess(wx, ids, results) ==
    [success |-> TRUE, error |-> Absent, workflow_execution_id |-> PyInt(wx),
     node_execution_ids |-> ids, results |-> results,
     message |-> RawText("Workflow executed successfully")]

NormReturn(r) ==
    /\ ret' = r
    /\ pc' = "workflow.done"

\* the except clause: the WorkflowExecutions row is failed with the text
NormUnexpected(e) ==
    LET error_msg == "Unexpected error during workflow execution: " \o e
    IN /\ WorkflowExecutions' = update_workflow_execution(WorkflowExecutions,
                                    workflow_execution_id, "failed", None,
                                    RawText(error_msg))
       /\ NormReturn(NormFailure(error_msg))

\* the running WorkflowExecutions row that every call begins with
NormEnter(w, inp) ==
    /\ pc = "workflow.idle"
    /\ workflow_id' = w
    /\ initial_input' = inp
    /\ WorkflowExecutions' = create_workflow_execution(WorkflowExecutions, w, "running", inp)
    /\ workflow_execution_id' = Len(WorkflowExecutions) + 1

\* fetch_workflow found no such workflow: the return leaves the row running
NormRunNotFound(w, inp) ==
    /\ ~wf_exists
    /\ NormEnter(w, inp)
    /\ NormReturn(NormFailure("Workflow " \o str(w) \o " not found"))
    /\ UNCHANGED <<catalog, Executions, ledger_before, flat_run, NodeExecutions, locals>>

NormRunNoNodes(w, inp) ==
    /\ wf_exists
    /\ nodes = <<>>
    /\ NormEnter(w, inp)
    /\ NormReturn(NormFailure("No nodes found for workflow " \o str(w)))
    /\ UNCHANGED <<catalog, Executions, ledger_before, flat_run, NodeExecutions, locals>>

NormRunNoRoots(w, inp) ==
    /\ wf_exists
    /\ nodes # <<>>
    /\ LET dag == build_dag(nodes, connections)
           roots == find_root_nodes(nodes, dag.in_degree)
       IN /\ roots = <<>>
          /\ graph' = dag.graph
          /\ in_degree' = dag.in_degree
          /\ root_nodes' = roots
    /\ NormEnter(w, inp)
    /\ NormReturn(NormFailure("No root nodes found for workflow " \o str(w)))
    /\ UNCHANGED <<catalog, Executions, ledger_before, flat_run, NodeExecutions,
                   root_index, queue, completed_nodes, execution_results,
                   node_execution_ids, current_node, input_data, execution_id>>

NormRunBegin(w, inp) ==
    /\ wf_exists
    /\ nodes # <<>>
    /\ LET dag == build_dag(nodes, connections)
           roots == find_root_nodes(nodes, dag.in_degree)
       IN /\ roots # <<>>
          /\ graph' = dag.graph
          /\ in_degree' = dag.in_degree
          /\ root_nodes' = roots
          /\ queue' = [i \in 1..Len(roots) |-> roots[i].id]
    /\ NormEnter(w, inp)
    /\ execution_results' = <<>>
    /\ completed_nodes' = {}
    /\ node_execution_ids' = <<>>
    /\ root_index' = 1
    /\ pc' = "workflow.root_create"
    /\ UNCHANGED <<catalog, Executions, ledger_before, flat_run, NodeExecutions,
                   current_node, input_data, execution_id, ret>>

\* root loop: the running NodeExecutions row of the next root
NormRootCreate ==
    /\ pc = "workflow.root_create"
    /\ LET root_node == root_nodes[root_index]
       IN /\ NodeExecutions' = create_node_execution(NodeExecutions, workflow_execution_id,
                                                     root_node.id, "running",
                                                     OrEmpty(initial_input))
          /\ execution_id' = Len(NodeExecutions) + 1
          /\ node_execution_ids' = Put(node_execution_ids, root_node.id,
                                       Len(NodeExecutions) + 1)
          /\ current_node' = root_node.id
          /\ input_data' = OrEmpty(initial_input)
    /\ pc' = "workflow.root_execute"
    /\ UNCHANGED <<catalog, Executions, flat_run, args, WorkflowExecutions,
                   workflow_execution_id, graph, in_degree, root_nodes, root_index, queue,
                   completed_nodes, execution_results, ret>>

\* NormFinalize, every row completed
NormFinalize_Completed(N, id, result) ==
    update_node_execution(N, id, "completed", Get(result, "output"), None)

\* the NodeExecutions row of a dispatched node after the dispatch returned
NormFinalize(N, id, result) ==
    IF result.success
    THEN update_node_execution(N, id, "completed", result.output, None)
    ELSE update_node_execution(N, id, "failed", None, Get(result, "error"))

NormAfterDispatch(result) ==
    /\ execution_results' = Put(execution_results, current_node, result)
    /\ completed_nodes' = completed_nodes \cup {current_node}
    /\ NodeExecutions' = NormFinalize(NodeExecutions, execution_id, result)
    /\ queue' = Enqueue(queue, graph, current_node,
                         completed_nodes \cup {current_node}, node_lookup).result

\* root loop: dispatch the root, then go on with the next root or the queue
NormRootExecute ==
    /\ pc = "workflow.root_execute"
    /\ \E proc \in ProcOutcomes(node_lookup[current_node]) :
       LET call == execute_node(node_lookup[current_node], input_data, proc)
       IN IF call.raised
          THEN /\ NormUnexpected(call.error)
               /\ UNCHANGED <<NodeExecutions, root_index, queue, completed_nodes,
                              execution_results>>
          ELSE /\ NormAfterDispatch(call.result)
               /\ IF EnqueueRaises
                  THEN /\ NormUnexpected(EnqueueError)
                       /\ UNCHANGED root_index
                  ELSE /\ root_index' = root_index + 1
                       /\ pc' = IF root_index < Len(root_nodes)
                                THEN "workflow.root_create" ELSE "workflow.queue"
                       /\ UNCHANGED <<ret, WorkflowExecutions>>
    /\ UNCHANGED <<catalog, Executions, flat_run, args, workflow_execution_id, graph,
                   in_degree, root_nodes, node_execution_ids, current_node, input_data,
                   execution_id>>

\* queue loop: the popped node is completed already
NormPopCompleted ==
    /\ pc = "workflow.queue"
    /\ queue # <<>>
    /\ Head(queue) \in completed_nodes
    /\ queue' = Tail(queue)
    /\ UNCHANGED <<catalog, normalized, flat_run, args, Executions, pc, graph, in_degree,
                   root_nodes, root_index, completed_nodes, execution_results,
                   node_execution_ids, current_node, input_data, execution_id, ret>>

\* queue loop: a predecessor of the popped node is not completed
NormPopNotReady ==
    /\ pc = "workflow.queue"
    /\ queue # <<>>
    /\ Head(queue) \notin completed_nodes
    /\ ~DependenciesMet(connections, Head(queue), completed_nodes)
    /\ queue' = Append(Tail(queue), Head(queue))
    /\ UNCHANGED <<catalog, normalized, flat_run, args, Executions, pc, graph, in_degree,
                   root_nodes, root_index, completed_nodes, execution_results,
                   node_execution_ids, current_node, input_data, execution_id, ret>>

\* queue loop: the popped node is ready; its input is merged and its running
\* NodeExecutions row created
NormPopReady ==
    /\ pc = "workflow.queue"
    /\ queue # <<>>
    /\ Head(queue) \notin completed_nodes
    /\ DependenciesMet(connections, Head(queue), completed_nodes)
    /\ LET node_id == Head(queue)
           merged == MergeInput(connections, node_id, execution_results)
       IN IF merged.raised
          THEN /\ NormUnexpected(merged.error)
               /\ current_node' = node_id
               /\ UNCHANGED <<NodeExecutions, node_execution_ids, input_data, execution_id>>
          ELSE /\ NodeExecutions' = create_node_execution(NodeExecutions,
                                        workflow_execution_id, node_id, "running",
                                        merged.result)
               /\ execution_id' = Len(NodeExecutions) + 1
               /\ node_execution_ids' = Put(node_execution_ids, node_id,
                                            Len(NodeExecutions) + 1)
               /\ current_node' = node_id
               /\ input_data' = merged.result
               /\ pc' = "workflow.execute"
               /\ UNCHANGED <<ret, WorkflowExecutions>>
    /\ queue' = Tail(queue)
    /\ UNCHANGED <<catalog, Executions, flat_run, args, workflow_execution_id, graph,
                   in_degree, root_nodes, root_index, completed_nodes, execution_results>>

\* queue loop: dispatch the node
NormExecute ==
    /\ pc = "workflow.execute"
    /\ \E proc \in ProcOutcomes(node_lookup[current_node]) :
       LET call == execute_node(node_lookup[current_node], input_data, proc)
       IN IF call.raised
          THEN /\ NormUnexpected(call.error)
               /\ UNCHANGED <<NodeExecutions, queue, completed_nodes, execution_results>>
          ELSE /\ NormAfterDispatch(call.result)
               /\ IF EnqueueRaises
                  THEN NormUnexpected(EnqueueError)
                  ELSE /\ pc' = "workflow.queue"
                       /\ UNCHANGED <<ret, WorkflowExecutions>>
    /\ UNCHANGED <<catalog, Executions, flat_run, args, workflow_execution_id, graph,
                   in_degree, root_nodes, root_index, node_execution_ids, current_node,
                   input_data, execution_id>>

\* the queue is empty: the WorkflowExecutions row is completed with the
\* results map, or failed with the count mismatch
NormFinish ==
    /\ pc = "workflow.queue"
    /\ queue = <<>>
    /\ IF Cardinality(completed_nodes) # Len(nodes)
       THEN LET error_msg == NotAllExecuted(Cardinality(completed_nodes), Len(nodes))
            IN /\ WorkflowExecutions' =
                      update_workflow_execution(WorkflowExecutions, workflow_execution_id,
                                                "failed", None, RawText(error_msg))
               /\ NormReturn(NormFailure(error_msg))
       ELSE /\ WorkflowExecutions' =
                   update_workflow_execution(WorkflowExecutions, workflow_execution_id,
                                             "completed", Dict(execution_results), None)
            /\ NormReturn(NormSuccess(workflow_execution_id, node_execution_ids,
                                      execution_results))
    /\ UNCHANGED <<catalog, Executions, flat_run, args, NodeExecutions,
                   workflow_execution_id, locals>>

NextNormalized ==
    \/ \E w \in WorkflowIds, inp \in InitialInputs :
          \/ NormRunNotFound(w, inp)
          \/ NormRunNoNodes(w, inp)
          \/ NormRunNoRoots(w, inp)
          \/ NormRunBegin(w, inp)
    \/ NormRootCreate
    \/ NormRootExecute
    \/ NormPopCompleted
    \/ NormPopNotReady
    \/ NormPopReady
    \/ NormExecute
    \/ NormFinish

\* the catalogs of InitForeign, the normalized executor about to be called
InitNormalized ==
    /\ wf_exists \in BOOLEAN
    /\ \E n \in 0..2 :
          /\ nodes \in NodeLists(n, ForeignKinds)
          /\ connections \in ConnLists({Conn(a, b) : a \in 1..n,
                                                      b \in (1..n) \cup {ForeignNode.id}},
                                        MaxConns)
    /\ (~wf_exists => nodes = <<>>)
    /\ Executions = <<>>
    /\ pc = "workflow.idle"
    /\ workflow_id = 0
    /\ initial_input = None
    /\ ledger_before = Executions
    /\ graph = <<>>
    /\ in_degree = <<>>
    /\ root_nodes = <<>>
    /\ root_index = 0
    /\ queue = <<>>
    /\ completed_nodes = {}
    /\ execution_results = <<>>
    /\ node_execution_ids = <<>>
    /\ current_node = 0
    /\ input_data = None
    /\ execution_id = 0
    /\ ret = None
    /\ WorkflowExecutions = <<>>
    /\ NodeExecutions = <<>>
    /\ workflow_execution_id = 0
    /\ flat_run = None

SpecNormalized == InitNormalized /\ [][NextNormalized]_vars

(***************************************************************************)
(* Both executors on one catalog: the flat-ledger executor runs to its     *)
(* end, what it returned is kept in flat_run (its rows stay in Executions),*)
(* and the normalized-ledger executor is called on the same catalog.  The  *)
(* handler outcomes of the two runs are chosen independently.              *)
(***************************************************************************)
CallNormalized ==
    /\ pc = "done"
    /\ flat_run' = [workflow_id |-> workflow_id, initial_input |-> initial_input,
                    ret |-> ret, execution_results |-> execution_results]
    /\ pc' = "workflow.idle"
    /\ workflow_id' = 0
    /\ initial_input' = None
    /\ graph' = <<>>
    /\ in_degree' = <<>>
    /\ root_nodes' = <<>>
    /\ root_index' = 0
    /\ queue' = <<>>
    /\ completed_nodes' = {}
    /\ execution_results' = <<>>
    /\ node_execution_ids' = <<>>
    /\ current_node' = 0
    /\ input_data' = None
    /\ execution_id' = 0
    /\ ret' = None
    /\ UNCHANGED <<catalog, normalized, Executions, ledger_before>>

NextBoth ==
    \/ Next
    \/ CallNormalized
    \/ NextNormalized

\* the catalogs of InitForeign, and the workflows of three nodes of the basic
\* kinds, the last one a Trigger, whose connections lead from a node to a
\* later one (a successor can be queued before one of its predecessors is
\* dispatched)
InitBoth ==
    /\ wf_exists \in BOOLEAN
    /\ \/ /\ \E n \in 0..2 :
                /\ nodes \in NodeLists(n, ForeignKinds)
                /\ connections \in
                       ConnLists({Conn(a, b) : a \in 1..n,
                                              b \in (1..n) \cup {ForeignNode.id}},
                                 MaxConns)
          /\ Executions \in {<<>>, <<OtherWorkflowRow>>}
       \/ /\ nodes \in {ns \in NodeLists(3, BasicKinds) : ns[3].type = "Trigger"}
          /\ connections \in
                 ConnLists({Conn(p[1], p[2]) :
                               p \in {q \in (1..3) \X (1..3) : q[1] < q[2]}},
                           MaxConns)
          /\ Executions = <<>>
    /\ (~wf_exists => nodes = <<>>)
    /\ pc = "idle"
    /\ workflow_id = 0
    /\ initial_input = None
    /\ ledger_before = Executions
    /\ graph = <<>>
    /\ in_degree = <<>>
    /\ root_nodes = <<>>
    /\ root_index = 0
    /\ queue = <<>>
    /\ completed_nodes = {}
    /\ execution_results = <<>>
    /\ node_execution_ids = <<>>
    /\ current_node = 0
    /\ input_data = None
    /\ execution_id = 0
    /\ ret = None
    /\ WorkflowExecutions = <<>>
    /\ NodeExecutions = <<>>
    /\ workflow_execution_id = 0
    /\ flat_run = None

SpecBoth == InitBoth /\ [][NextBoth]_vars

(***************************************************************************)
(* Vocabulary of the properties                                            *)
(***************************************************************************)
NodeIdSet == {nodes[i].id : i \in DOMAIN nodes}

\* the sources of the connections into n, the targets of those out of n
Predecessors(n) ==
    {connections[i].from_node_id : i \in {j \in DOMAIN connections :
                                              connections[j].to_node_id = n}}
Successors(n) ==
    {connections[i].to_node_id : i \in {j \in DOMAIN connections :
                                            connections[j].from_node_id = n}}

RootIds == {n \in NodeIdSet : Predecessors(n) = {}}

\* the nodes that a path of at least one connection reaches from S
RECURSIVE ReachedFrom(_)
ReachedFrom(S) ==
    LET T == S \cup UNION {Successors(n) : n \in S}
    IN IF T = S THEN S ELSE ReachedFrom(T)
Descendants(n) == ReachedFrom(Successors(n))

OnCycle(n) == n \in Descendants(n)
Acyclic == \A n \in NodeIdSet : ~OnCycle(n)
ReachableAcyclic == \A n \in RootIds \cup UNION {Descendants(r) : r \in RootIds} : ~OnCycle(n)

\* the record the run created for node n
RecordOf(n) == Executions[node_execution_ids[n]]
Terminal(rec) == rec.status \in {"completed", "failed"}

\* execute_node is about to be called on current_node with input_data
Dispatching == pc \in {"root_execute", "execute"}

(***************************************************************************)
(* Properties                                                              *)
(***************************************************************************)

\* every parameters text of the workflow is a JSON document
ParametersDecode ==
    \A i \in DOMAIN nodes : Truthy(nodes[i].parameters) => json_loads(nodes[i].parameters).ok

\* C1: every workflow that has a root and whose connection graph reachable
\* from the roots is acyclic is run to the end with success = true and one
\* result per node.  Stated for the workflows among them whose whole graph is
\* acyclic and whose parameters texts decode: the claim fails there already.
C1_RunSucceeds ==
    (pc = "done" /\ wf_exists /\ RootIds # {} /\ ReachableAcyclic /\ Acyclic
       /\ ParametersDecode)
        => /\ ret.success
           /\ Cardinality(DOMAIN ret.results) = Len(nodes)

\* C2: a node is dispatched only when the source of every connection into it
\* is in the completed set, has its result stored and its record finalized.
C2_DispatchAfterPredecessors ==
    Dispatching =>
        \A p \in Predecessors(current_node) :
            /\ p \in completed_nodes
            /\ p \in DOMAIN execution_results
            /\ Terminal(RecordOf(p))

\* a node with two predecessors, one of them not a root, is being dispatched
C2_Witness ==
    /\ pc = "execute"
    /\ Cardinality(Predecessors(current_node)) = 2
    /\ \E p \in Predecessors(current_node) : p \notin RootIds
    /\ Acyclic

\* the output of predecessor p as the scheduler normalizes it
NormalOutput(p) == NormalizeOutput(execution_results[p].output)

\* the connections into n whose source was dispatched with success
SuccessfulInto(n) ==
    {i \in DOMAIN connections :
        /\ connections[i].to_node_id = n
        /\ execution_results[connections[i].from_node_id].success}

NormalOfConn(i) == NormalOutput(connections[i].from_node_id)

\* every key of the successful predecessors' outputs, with the value of the
\* last connection that holds the key
LastWriteWins(n) ==
    LET C == SuccessfulInto(n)
        keys == UNION {DOMAIN NormalOfConn(i).d : i \in C}
    IN Dict([k \in keys |->
                NormalOfConn(Max({i \in C : k \in DOMAIN NormalOfConn(i).d})).d[k]])

FailedPredecessors(n) == {p \in Predecessors(n) : ~execution_results[p].success}
SucceededPredecessors(n) == {p \in Predecessors(n) : execution_results[p].success}

\* the step taken at a popped node that has a failed predecessor and all its
\* predecessors completed: the node is not put back; it is dispatched, unless
\* the output of a predecessor that succeeded is no mapping; every key of its
\* input comes from a predecessor that succeeded; with no such predecessor
\* the input is the empty mapping
C4_Step ==
    (/\ pc = "queue"
     /\ queue # <<>>
     /\ Head(queue) \notin completed_nodes
     /\ Predecessors(Head(queue)) \subseteq completed_nodes
     /\ FailedPredecessors(Head(queue)) # {})
    => LET h == Head(queue)
           ok == SucceededPredecessors(h)
       IN /\ pc' # "queue"
          /\ pc' = "done" => \E p \in ok : ~IsDict(NormalOutput(p))
          /\ pc' = "execute" =>
                /\ current_node' = h
                /\ \A k \in DOMAIN input_data'.d :
                      \E p \in ok : /\ k \in DOMAIN NormalOutput(p).d
                                    /\ NormalOutput(p).d[k] = input_data'.d[k]
          /\ ok = {} => (pc' = "execute" /\ input_data' = EmptyDict)

C5_MergeYieldsMapping ==
    (/\ pc = "queue"
     /\ queue # <<>>
     /\ Head(queue) \notin completed_nodes
     /\ Predecessors(Head(queue)) \subseteq completed_nodes)
    => /\ \A p \in SucceededPredecessors(Head(queue)) : IsDict(NormalOutput(p))
       /\ ~MergeInput(connections, Head(queue), execution_results).raised

\* C6: every root is dispatched by the root loop, with the initial input, or
\* the empty mapping when none is given, whatever the roots before it returned.
C6_RootInput ==
    Dispatching =>
        /\ current_node \in RootIds <=> pc = "root_execute"
        /\ pc = "root_execute" =>
              input_data = (IF initial_input = None THEN EmptyDict ELSE initial_input)

\* the second root is dispatched after a first root whose output is not the
\* initial input
C6_Witness ==
    /\ pc = "root_execute"
    /\ root_index = 2
    /\ initial_input # None
    /\ \E r \in completed_nodes :
          /\ execution_results[r].success
          /\ NormalOutput(r) # initial_input

\* the targets of the connections out of n, in connection order
SuccessorList(n) ==
    LET out(c) == c.from_node_id = n
        cs == SelectSeq(connections, out)
    IN [i \in 1..Len(cs) |-> cs[i].to_node_id]

NodeDecodes(n) ==
    \A i \in DOMAIN nodes :
        (nodes[i].id = n /\ Truthy(nodes[i].parameters)) => json_loads(nodes[i].parameters).ok

\* the step that a dispatch takes: the result is stored, the node completed,
\* its successors that are not completed appended to the queue and the run
\* goes on; the run ends here only for a node whose parameters do not decode
C7_Step ==
    (Dispatching /\ vars' # vars)
    => LET n == current_node
           open(m) == m \notin completed_nodes \cup {n}
       IN IF NodeDecodes(n)
          THEN /\ pc' \in {"root_create", "queue"}
               /\ n \in DOMAIN execution_results'
               /\ completed_nodes' = completed_nodes \cup {n}
               /\ queue' = queue \o SelectSeq(SuccessorList(n), open)
               /\ ~execution_results'[n].success =>
                     /\ RecordOf(n)'.status = "failed"
                     /\ ret' = ret
          ELSE pc' = "done"

\* C7: a failed dispatch never aborts the run: the node is completed, its
\* failed result stored and its successors enqueued as after a success.
C7_FailureDoesNotAbort == [][C7_Step]_vars

\* a successor is dispatched after a predecessor failed with an exception
\* or an unknown type
C7_Witness ==
    /\ pc = "execute"
    /\ \E p \in Predecessors(current_node) :
          /\ ~execution_results[p].success
          /\ execution_results[p].output = None

\* C8: when the queue has drained the run returns success = true if and only
\* if the number of completed nodes is the number of nodes, whatever the
\* dispatch results are.
C8_SuccessIffAllCompleted ==
    [][(pc = "queue" /\ queue = <<>>)
         => /\ pc' = "done"
            /\ ret'.success <=> Cardinality(completed_nodes) = Len(nodes)]_vars

\* a run of two or more nodes, all failed, returned success
C8_Witness ==
    /\ pc = "done"
    /\ ret.success
    /\ Len(nodes) >= 2
    /\ \A n \in NodeIdSet : ~execution_results[n].success

\* a record is running only while the dispatch of its node has not returned
C9_RunningOnlyDuringDispatch ==
    \A i \in DOMAIN Executions :
        Executions[i].status = "running" =>
            /\ i = execution_id
            /\ \/ Dispatching
               \/ pc = "done" /\ ~ret.success /\ ~NodeDecodes(current_node)

\* a record is created running, by the step that leads to the dispatch of its
\* node; a record changes only from running to completed or failed, in the
\* step in which that dispatch returns
C9_Step ==
    /\ Len(Executions') >= Len(Executions)
    /\ \A i \in DOMAIN Executions' \ DOMAIN Executions :
          /\ Executions'[i].status = "running"
          /\ ~Dispatching
          /\ Dispatching'
          /\ execution_id' = i
          /\ Executions'[i].node_id = current_node'
    /\ \A i \in DOMAIN Executions :
          Executions'[i] # Executions[i] =>
              /\ Executions[i].status = "running"
              /\ Terminal(Executions'[i])
              /\ Dispatching
              /\ i = execution_id

C10_TerminalStatusMatchesResult ==
    \A n \in DOMAIN execution_results :
        LET r == execution_results[n]
            rec == RecordOf(n)
        IN IF r.success
           THEN /\ rec.status = "completed"
                /\ rec.output = json_dumps(r.output)
                /\ rec.error = None
           ELSE /\ rec.status = "failed"
                /\ rec.error = r.error
                /\ rec.output = None

\* the rows the call added to the table
NewRows == {i \in DOMAIN Executions : i > Len(ledger_before)}

\* C11: after a run that returned success = true the table holds exactly one
\* new row per node of the workflow, execution_ids maps every node id to the
\* id of the row of that node, and the keys of results are the node ids.
C11_OneRecordPerNode ==
    (pc = "done" /\ ret.success) =>
        /\ Cardinality(NewRows) = Len(nodes)
        /\ \A n \in NodeIdSet :
              Cardinality({i \in NewRows : /\ Executions[i].node_id = n
                                           /\ Executions[i].workflow_id = workflow_id}) = 1
        /\ DOMAIN ret.execution_ids = NodeIdSet
        /\ \A n \in NodeIdSet :
              /\ ret.execution_ids[n] \in NewRows
              /\ Executions[ret.execution_ids[n]].node_id = n
        /\ DOMAIN ret.results = NodeIdSet

\* the second run of a workflow of two nodes returned success although a
\* dispatch failed, the table holding a row of another workflow as well
C11_Witness ==
    /\ pc = "done"
    /\ ret.success
    /\ Len(nodes) = 2
    /\ Len(ledger_before) = 3
    /\ \E n \in DOMAIN ret.results : ~ret.results[n].success

\* the run indices the table holds for workflow w and node n
IndicesOf(E, w, n) ==
    {E[i].run_index : i \in {j \in DOMAIN E : E[j].workflow_id = w /\ E[j].node_id = n}}

\* the rows of workflow w and node n alone
OnlyRowsOf(E, w, n) ==
    SelectSeq(E, LAMBDA row : row.workflow_id = w /\ row.node_id = n)

\* C12: get_next_run_index returns 1 when the table holds no row of the
\* (workflow, node) pair and otherwise the largest run index of the pair
\* plus 1; the rows of other nodes and other workflows do not change it.
C12_NextRunIndex ==
    pc = "returned" =>
        LET S == IndicesOf(Executions, workflow_id, current_node)
        IN /\ S = {} => ret = PyInt(1)
           /\ S # {} => /\ ret.n - 1 \in S
                        /\ \A x \in S : x < ret.n
           /\ ret = PyInt(get_next_run_index(
                              OnlyRowsOf(Executions, workflow_id, current_node),
                              workflow_id, current_node))

\* the pair has rows, its largest index is not in the last of them, and
\* another node and another workflow hold larger indices
C12_Witness ==
    /\ pc = "returned"
    /\ ret = PyInt(3)
    /\ Len(Executions) = 3
    /\ Executions[1].workflow_id = workflow_id
    /\ Executions[1].node_id = current_node
    /\ Executions[1].run_index = 2
    /\ Executions[2].workflow_id = workflow_id
    /\ Executions[2].node_id # current_node
    /\ Executions[2].run_index = 3
    /\ Executions[3].workflow_id # workflow_id
    /\ Executions[3].node_id = current_node
    /\ Executions[3].run_index = 3

\* the rows of one (workflow, node) pair carry increasing run indices
C13_Increasing ==
    \A i, j \in DOMAIN Executions :
        (/\ i < j
         /\ Executions[i].workflow_id = Executions[j].workflow_id
         /\ Executions[i].node_id = Executions[j].node_id)
            => Executions[i].run_index < Executions[j].run_index

\* a new row carries index 1 when it is the first of its pair, and otherwise
\* the index of the latest earlier row of the pair plus 1
C13_Step ==
    Len(Executions') > Len(Executions) =>
        LET row == Executions'[Len(Executions')]
            earlier == {i \in DOMAIN Executions :
                           /\ Executions[i].workflow_id = row.workflow_id
                           /\ Executions[i].node_id = row.node_id}
        IN /\ Len(Executions') = Len(Executions) + 1
           /\ row.run_index = IF earlier = {} THEN 1
                               ELSE Executions[Max(earlier)].run_index + 1

\* C13: when the same workflow is run again and again, the row a run creates
\* for a node carries the run index of the row the previous run created for
\* that node plus 1, starting at 1: the indices of one (workflow, node) pair
\* increase strictly, without repeats.
C13_RunIndexPerRun == [](C13_Increasing) /\ [][C13_Step]_vars

\* the second run of a workflow of two nodes is over: both nodes have a row
\* with index 1 and a later row with index 2
C13_Witness ==
    /\ pc = "done"
    /\ Len(nodes) = 2
    /\ \A n \in NodeIdSet :
          \E i, j \in DOMAIN Executions :
              /\ i < j
              /\ j \in NewRows
              /\ Executions[i].node_id = n /\ Executions[i].run_index = 1
              /\ Executions[j].node_id = n /\ Executions[j].run_index = 2

\* the value run_workflow returns for a failure with the given error text
FailedWith(r, text) ==
    /\ r.success = FALSE
    /\ r.error = RawText(text)
    /\ r.results = Absent
    /\ r.execution_ids = Absent

\* C14: run_workflow on a workflow id that the catalog does not hold returns
\* success = false with the error 'Workflow <id> not found'.
C14_NotFound ==
    [][(pc = "idle" /\ ~wf_exists) =>
          /\ pc' = "done"
          /\ workflow_id' = 1 => FailedWith(ret', "Workflow 1 not found")]_vars

\* the call on the missing workflow 1 has returned
C14_Witness ==
    /\ pc = "done"
    /\ ~wf_exists
    /\ workflow_id = 1
    /\ ~ret.success

\* C15: run_workflow on an existing workflow without nodes always returns
\* success = false with the error 'No nodes found for workflow <id>'.
C15_NoNodes ==
    [][(pc = "idle" /\ wf_exists /\ nodes = <<>>) =>
          /\ pc' = "done"
          /\ workflow_id' = 1 => FailedWith(ret', "No nodes found for workflow 1")]_vars

\* the call on the empty workflow 1 has returned
C15_Witness ==
    /\ pc = "done"
    /\ wf_exists
    /\ nodes = <<>>
    /\ workflow_id = 1
    /\ ~ret.success

\* every node is the target of a connection
NoNodeWithoutIncoming == \A n \in NodeIdSet : Predecessors(n) # {}

\* C16: run_workflow on a workflow with nodes, every one of them the target
\* of a connection, always returns success = false with the error 'No root
\* nodes found for workflow <id>', and never enters the queue loop.
C16_NoRootNodes ==
    [][(pc = "idle" /\ wf_exists /\ nodes # <<>> /\ NoNodeWithoutIncoming) =>
          /\ pc' = "done"
          /\ workflow_id' = 1 => FailedWith(ret', "No root nodes found for workflow 1")
          /\ queue' = <<>>
          /\ completed_nodes' = {}]_vars

\* the call on the two nodes 1 -> 2, 2 -> 1 has returned
C16_Witness ==
    /\ pc = "done"
    /\ wf_exists
    /\ Len(nodes) = 2
    /\ connections = <<Conn(1, 2), Conn(2, 1)>>
    /\ ~ret.success

\* the errors of the calls that end before the scheduling begins
RunLevelFailure(r) ==
    /\ r.success = FALSE
    /\ r.error \in {RawText("Workflow 1 not found"),
                     RawText("No nodes found for workflow 1"),
                     RawText("No root nodes found for workflow 1")}

\* C17: a call that returns WorkflowNotFound, EmptyWorkflow or NoRootNodes
\* has dispatched no node and has created or changed no row: the table after
\* the call is the table before the call.
C17_RunLevelFailureLeavesLedger ==
    (pc = "done" /\ RunLevelFailure(ret)) =>
        /\ Executions = ledger_before
        /\ execution_results = <<>>
        /\ node_execution_ids = <<>>
        /\ completed_nodes = {}

\* a call on a workflow without root nodes has returned, the table holding a
\* row before the call
C17_Witness ==
    /\ pc = "done"
    /\ RunLevelFailure(ret)
    /\ nodes # <<>>
    /\ ledger_before # <<>>
    /\ Executions = ledger_before

\* C18: for a workflow that has a root and a cycle (a self-loop included)
\* with a node reachable from a root, run_workflow never returns: the queue
\* never becomes empty.  Stated for the workflows among them whose
\* parameters texts decode.
C18_NeverReturns ==
    (wf_exists /\ RootIds # {} /\ ~ReachableAcyclic /\ ParametersDecode)
        => pc # "done"

\* run_workflow returned the count-mismatch failure
CountMismatch ==
    /\ pc = "done"
    /\ ret.success = FALSE
    /\ \E c, t \in 0..Len(nodes) : ret.error = RawText(NotAllExecuted(c, t))

\* C19: run_workflow returns the count-mismatch failure ('Not all nodes
\* could be executed') only for workflows whose connection graph has a
\* cycle; no run of an acyclic workflow ends with it.
C19_CountMismatchOnlyWithCycle == CountMismatch => ~Acyclic

\* the count-mismatch failure of a workflow of three nodes: its roots were
\* dispatched, its cycle is out of their reach
C19_Witness ==
    /\ CountMismatch
    /\ Len(nodes) = 3
    /\ ReachableAcyclic
    /\ ret.error = RawText("Not all nodes could be executed. Completed: 2, Total: 3")

\* the rows of the call that have status running
RunningRows == {i \in NewRows : Executions[i].status = "running"}

C20_OneRunning == Cardinality(RunningRows) <= 1

\* when the call adds a row, every other row of the call is terminal
C20_Step ==
    Len(Executions') > Len(Executions) =>
        \A i \in DOMAIN Executions' :
            (i > Len(ledger_before') /\ i # Len(Executions')) => Terminal(Executions'[i])

\* C20: at every point of a run at most one row created by the run has
\* status running: the row of a node is finalized before the row of the next
\* node is created, so a run that stops at any point leaves at most one of
\* its rows running and all its other rows terminal.
C20_AtMostOneRunning == [](C20_OneRunning) /\ [][C20_Step]_vars

\* a run ended by an exception of execute_node: its last row is left
\* running, its earlier row is terminal
C20_Witness ==
    /\ pc = "done"
    /\ Len(Executions) = 2
    /\ RunningRows = {2}
    /\ Terminal(Executions[1])

(***************************************************************************)
(* Properties of execute_node (specification SpecDispatch)                 *)
(***************************************************************************)
\* execute_node has been called on the node row nodes[1] with input_data
Dispatched == pc = "returned"

\* the parameters of the dispatched node as execute_node decodes them
DecodedParameters ==
    IF Truthy(nodes[1].parameters) THEN json_loads(nodes[1].parameters).v ELSE EmptyDict

PassthroughTypes == {"Trigger", "LLM", "Conditional", "Manual"}
KnownTypes == PassthroughTypes \cup {"Command", "Constant"}

\* C21: the dispatch of a node of type Trigger, LLM, Conditional or Manual
\* succeeds and returns as output exactly the input it was given, for every
\* input and every parameters payload (a parameters text that decodes).
C21_PassthroughReturnsInput ==
    (Dispatched /\ nodes[1].type \in PassthroughTypes /\ ParametersDecode) =>
        /\ ~ret.call.raised
        /\ ret.call.result.success
        /\ ret.call.result.output = input_data

\* an LLM node with a parameters mapping was dispatched on a mapping
C21_Witness ==
    /\ Dispatched
    /\ nodes[1].type = "LLM"
    /\ nodes[1].parameters = JsonText(Dict([a |-> RawText("v3")]))
    /\ input_data = Dict([input |-> RawText("test")])
    /\ ret.call.result.output = Dict([input |-> RawText("test")])

\* C22: the dispatch of a Constant node succeeds and returns as output
\* exactly the node's parameters, whatever the input: a dispatch of the same
\* node with any other input returns the same output.
C22_ConstantReturnsParameters ==
    (Dispatched /\ nodes[1].type = "Constant" /\ ParametersDecode) =>
        /\ ~ret.call.raised
        /\ ret.call.result.success
        /\ ret.call.result.output = DecodedParameters
        /\ \A other \in DispatchInputs :
              execute_node(nodes[1], other, ret.proc).result.output = ret.call.result.output

\* a Constant node was dispatched on a mapping that holds a key of its
\* parameters with another value
C22_Witness ==
    /\ Dispatched
    /\ nodes[1].type = "Constant"
    /\ nodes[1].parameters = JsonText(Dict([a |-> RawText("v3")]))
    /\ input_data = Dict([a |-> RawText("v1")])
    /\ ret.call.result.output = Dict([a |-> RawText("v3")])

\* a Command node with a command whose process was spawned
CommandRan ==
    /\ Dispatched
    /\ nodes[1].type = "Command"
    /\ ParametersDecode
    /\ IsDict(DecodedParameters)
    /\ "command" \in DOMAIN DecodedParameters.d
    /\ ~ret.proc.raises

C24_CommandReturnsInput ==
    (CommandRan /\ ret.proc.returncode = 0 /\ IsDict(input_data)) =>
        /\ ret.call.result.success
        /\ ret.call.result.output = input_data

\* C25: the dispatch of a node whose type is none of Trigger, Command,
\* Constant, LLM, Conditional, Manual returns a failed result with the error
\* 'Unknown node type: <type>' and a null output; no handler has run (the
\* result carries no handler's message).
C25_UnknownType ==
    (Dispatched /\ nodes[1].type \notin KnownTypes /\ ParametersDecode) =>
        /\ ~ret.call.raised
        /\ ret.call.result.success = FALSE
        /\ ret.call.result.error = RawText("Unknown node type: " \o nodes[1].type)
        /\ ret.call.result.output = None
        /\ ret.call.result.message = Absent

\* a node of type Webhook was dispatched
C25_Witness ==
    /\ Dispatched
    /\ nodes[1].type = "Webhook"
    /\ ParametersDecode
    /\ ret.call.result.error = RawText("Unknown node type: Webhook")

\* what the handler of a Command node does on the dispatched node
CommandHandler ==
    execute_command_node(nodes[1], input_data, DecodedParameters, ret.proc)

\* C26: an exception raised inside a handler (a Command node without a
\* 'command' parameter, subprocess.run raising) is caught by execute_node
\* and becomes the result {success: false, error: <message>, output: null};
\* execute_node does not raise it.
C26_HandlerExceptionCaught ==
    (Dispatched /\ ParametersDecode) =>
        /\ ~ret.call.raised
        /\ (nodes[1].type = "Command" /\ CommandHandler.raised) =>
              /\ ret.call.result.success = FALSE
              /\ ret.call.result.error = RawText(CommandHandler.error)
              /\ ret.call.result.output = None

\* a Command node whose parameters hold no command was dispatched
C26_Witness ==
    /\ Dispatched
    /\ nodes[1].type = "Command"
    /\ nodes[1].parameters = JsonText(Dict([a |-> RawText("v3")]))
    /\ ret.call.result.success = FALSE
    /\ ret.call.result.error = RawText("'command'")
    /\ ret.call.result.output = None

(***************************************************************************)
(* Properties of the value run_workflow returns, and of build_dag          *)
(***************************************************************************)
\* the returned value r holds key
HasKey(r, key) == IF r.success THEN TRUE ELSE r[key] # Absent

\* C27: every value run_workflow returns holds the success flag, the map of
\* the results per node and the map of the execution record ids, whether
\* success is true or false.
C27_ReturnShape ==
    pc = "done" =>
        /\ ret.success \in BOOLEAN
        /\ HasKey(ret, "results")
        /\ HasKey(ret, "execution_ids")

\* the positions of the connections out of node a, and the k-th of them
OutgoingOf(a) == {i \in DOMAIN connections : connections[i].from_node_id = a}
NthOutgoing(a, k) ==
    CHOOSE i \in OutgoingOf(a) : Cardinality({j \in OutgoingOf(a) : j <= i}) = k

\* C28: build_dag returns an in-degree map with an entry for every node of
\* the node list, equal to the number of connections whose target is the
\* node, and an adjacency map whose list for a node holds the targets of the
\* node's outgoing connections in the order of the connection list; empty
\* lists give two empty maps.
C28_BuildDag ==
    pc = "returned" =>
        /\ NodeIdSet \subseteq DOMAIN in_degree
        /\ \A n \in NodeIdSet :
              in_degree[n] = Cardinality({i \in DOMAIN connections :
                                              connections[i].to_node_id = n})
        /\ \A a \in NodeIdSet \cup DOMAIN graph :
              LET L == GraphGet(graph, a)
              IN /\ Len(L) = Cardinality(OutgoingOf(a))
                 /\ \A k \in 1..Len(L) : L[k] = connections[NthOutgoing(a, k)].to_node_id
        /\ (nodes = <<>> /\ connections = <<>>) => (graph = <<>> /\ in_degree = <<>>)

\* three nodes, node 1 with two outgoing connections that another
\* connection separates, node 3 the target of two connections
C28_Witness ==
    /\ pc = "returned"
    /\ Len(nodes) = 3
    /\ connections = <<Conn(1, 3), Conn(2, 3), Conn(1, 2)>>
    /\ graph[1] = <<3, 2>>
    /\ in_degree[1] = 0
    /\ in_degree[3] = 2

(***************************************************************************)
(* Properties of the order of the dispatches                               *)
(***************************************************************************)
\* the rows the run created for node n
RowsOfNode(n) == {i \in NewRows : Executions[i].node_id = n}

C29_OneRowPerNode == \A n \in NodeIdSet : Cardinality(RowsOfNode(n)) <= 1

\* a popped node that is completed is dropped: no dispatch, no row; and a
\* node whose dispatch begins is not completed and has no result
C29_Step ==
    /\ (pc = "queue" /\ queue # <<>> /\ Head(queue) \in completed_nodes) =>
          /\ queue' = Tail(queue)
          /\ pc' = "queue"
          /\ Executions' = Executions
          /\ execution_results' = execution_results
          /\ completed_nodes' = completed_nodes
    /\ (Dispatching' /\ ~Dispatching) =>
          /\ current_node' \notin completed_nodes
          /\ current_node' \notin DOMAIN execution_results

\* C29: within one run every node is dispatched at most once, also when it
\* is in the queue several times: a popped node that is in the completed
\* set is discarded without a dispatch and without a new row.
C29_DispatchedAtMostOnce == [](C29_OneRowPerNode) /\ [][C29_Step]_vars

\* a run that ended with success: a node with two roots as predecessors was
\* enqueued by each of them and has one row
C29_Witness ==
    /\ pc = "done"
    /\ ret.success
    /\ \E n \in NodeIdSet :
          /\ Cardinality(Predecessors(n)) = 2
          /\ Predecessors(n) \subseteq RootIds
          /\ Cardinality(RowsOfNode(n)) = 1

\* the k-th root in node enumeration order (the node rows are ordered by id)
KthRoot(k) == CHOOSE r \in RootIds : Cardinality({x \in RootIds : x <= r}) = k

\* the first rows of a run are those of the roots, in node order; the rows
\* after them are rows of other nodes
C30_RootsFirst ==
    \A i \in NewRows :
        LET k == i - Len(ledger_before)
        IN IF k <= Cardinality(RootIds)
           THEN Executions[i].node_id = KthRoot(k)
           ELSE Executions[i].node_id \notin RootIds

\* the root loop dispatches the next root whatever the state of the run; the
\* queue loop dispatches the node at the head of the queue, after all roots
C30_Step ==
    /\ (pc = "root_create" /\ pc' = "root_execute") => current_node' = KthRoot(root_index)
    /\ pc = "root_create" => pc' = "root_execute"
    /\ (pc = "queue" /\ pc' = "execute") =>
          /\ current_node' = Head(queue)
          /\ RootIds \subseteq completed_nodes
    /\ Dispatching' => RunningRows' = {execution_id'}

\* C30: all roots are dispatched, in node enumeration order and without a
\* readiness check, before any other node is dispatched; the other nodes
\* are then dispatched one after another in the order the queue releases
\* them.
C30_RootsThenQueueOrder == [](C30_RootsFirst) /\ [][C30_Step]_vars

\* two roots were dispatched, the third node is being dispatched
C30_Witness ==
    /\ pc = "execute"
    /\ Cardinality(RootIds) = 2
    /\ Len(Executions) = 3
    /\ current_node \notin RootIds

(***************************************************************************)
(* Frame properties                                                        *)
(***************************************************************************)
\* the queue loop is about to pop a node that is not completed and has a
\* predecessor that is not completed
PoppedNotReady ==
    /\ pc = "queue"
    /\ queue # <<>>
    /\ Head(queue) \notin completed_nodes
    /\ \E p \in Predecessors(Head(queue)) : p \notin completed_nodes

C31_Step ==
    PoppedNotReady =>
        /\ queue' = Append(Tail(queue), Head(queue))
        /\ completed_nodes' = completed_nodes
        /\ execution_results' = execution_results
        /\ node_execution_ids' = node_execution_ids
        /\ Executions' = Executions
        /\ pc' = "queue"
        /\ ret' = ret

\* C31: when the popped node is not ready the step moves it to the back of
\* the queue and does nothing else: the completed set, the results, the
\* execution ids and the table are unchanged and the other queued nodes keep
\* their order.
C31_NotReadyIsRequeued == [][C31_Step]_vars

\* node 2 waits for 1 and 3: it was popped before 3 and now stands behind it
C31_Witness ==
    /\ pc = "queue"
    /\ connections = <<Conn(1, 2), Conn(1, 3), Conn(3, 2)>>
    /\ completed_nodes = {1}
    /\ queue = <<3, 2>>

\* the columns of a row that C32 speaks of
Columns(rec) == <<rec.status, rec.input, rec.output, rec.error, rec.run_index>>

\* the rows that were terminal when the call began are in the table as the
\* call found them
C32_EarlierRowsKept ==
    /\ Len(Executions) >= Len(ledger_before)
    /\ \A i \in DOMAIN ledger_before :
          Terminal(ledger_before[i]) => Columns(Executions[i]) = Columns(ledger_before[i])

\* no step takes a row away, and no step changes a terminal row
C32_Step ==
    /\ Len(Executions') >= Len(Executions)
    /\ \A i \in DOMAIN Executions :
          Terminal(Executions[i]) => Columns(Executions'[i]) = Columns(Executions[i])

\* C32: a run deletes no row and changes no row of an earlier run: over any
\* sequence of runs the table only grows, and status, input, output, error
\* and run index of every row that was terminal before a run are the same
\* after it.
C32_LedgerOnlyGrows == [](C32_EarlierRowsKept) /\ [][C32_Step]_vars

\* the second run of a workflow has returned: a node whose dispatch failed in
\* the first run has a completed row of the second run next to its failed row
C32_Witness ==
    /\ pc = "done"
    /\ \E i \in DOMAIN ledger_before, j \in NewRows :
          /\ Executions[i].workflow_id = Executions[j].workflow_id
          /\ Executions[i].node_id = Executions[j].node_id
          /\ Executions[i].status = "failed"
          /\ Executions[j].status = "completed"

(***************************************************************************)
(* Properties of the stored snapshots                                      *)
(***************************************************************************)
\* C33: the input stored in the row of a node is the input its dispatch gets:
\* for a root the initial input, the empty mapping when there is none, for
\* another node the merged input; the empty mapping is stored as an empty
\* mapping, not as null.
C33_InputSnapshot ==
    Dispatching =>
        /\ Executions[execution_id].input = json_dumps(input_data)
        /\ pc = "root_execute" =>
              input_data = IF initial_input = None THEN EmptyDict ELSE initial_input

\* C34: when run_workflow has returned, no row that the call created is
\* running, whatever way the call ended.
C34_NoRunningAtReturn ==
    pc = "done" => \A i \in NewRows : Executions[i].status # "running"

(***************************************************************************)
(* Interleaved calls                                                       *)
(***************************************************************************)
\* C35: when two calls of run_workflow on the same workflow interleave, no
\* two rows of the same workflow and node get the same run index.
C35_RunIndexUnique ==
    \A i, j \in DOMAIN Executions :
        (/\ i # j
         /\ Executions[i].workflow_id = Executions[j].workflow_id
         /\ Executions[i].node_id = Executions[j].node_id)
            => Executions[i].run_index # Executions[j].run_index

(***************************************************************************)
(* Connections into another workflow                                       *)
(***************************************************************************)
\* a fetched connection enters a node of another workflow
ForeignTargets ==
    {connections[i].to_node_id : i \in DOMAIN connections} \ NodeIdSet

\* C39: run_workflow dispatches, and creates rows for, nodes of its workflow
\* only, also when a connection leaves a node of the workflow and enters a
\* node of another workflow: no such node is enqueued, dispatched or marked
\* completed.
C39_OnlyOwnNodes ==
    /\ \A i \in NewRows :
          /\ Executions[i].workflow_id = workflow_id
          /\ Executions[i].node_id \in NodeIdSet
    /\ \A k \in DOMAIN queue : queue[k] \in NodeIdSet
    /\ Dispatching => current_node \in NodeIdSet
    /\ completed_nodes \subseteq NodeIdSet
    /\ DOMAIN execution_results \subseteq NodeIdSet
    /\ DOMAIN node_execution_ids \subseteq NodeIdSet

\* root 1 has the successors 2 and 3, 3 being the node of workflow 2: node 1
\* was dispatched and its row completed, node 2 was enqueued, and the lookup
\* of node 3 ended the run
C39_Witness ==
    /\ pc = "done"
    /\ connections = <<Conn(1, 2), Conn(1, 3)>>
    /\ ForeignTargets = {3}
    /\ completed_nodes = {1}
    /\ queue = <<1, 2>>
    /\ Executions[Len(Executions)].status = "completed"
    /\ ret = Failure("Unexpected error during workflow execution: 3")

(***************************************************************************)
(* The except clause of run_workflow                                       *)
(***************************************************************************)
UnexpectedPrefix == "Unexpected error during workflow execution"

\* the text begins with the prefix
BeginsWith(text, prefix) ==
    /\ Len(text) >= Len(prefix)
    /\ SubSeq(text, 1, Len(prefix)) = prefix

\* the call is at a point where it returns without an error: the workflow is
\* missing, has no node or no root, or the queue is empty
OrdinaryEnd ==
    \/ pc = "idle" /\ (~wf_exists \/ nodes = <<>> \/ RootIds = {})
    \/ pc = "queue" /\ queue = <<>>

\* the call ends: a value is returned; when the end is not an ordinary one an
\* error was raised, and the value is the failure with the text of the except
\* clause, no row is added and no dispatch begins
C37_Step ==
    /\ (pc # "done" /\ pc' = "done") =>
          /\ "success" \in DOMAIN ret'
          /\ ~OrdinaryEnd =>
                /\ ret'.success = FALSE
                /\ BeginsWith(ret'.error.s, UnexpectedPrefix)
                /\ ret'.results = Absent
                /\ Len(Executions') = Len(Executions)
    /\ pc = "done" =>
          /\ pc' = "done"
          /\ Executions' = Executions
          /\ completed_nodes' = completed_nodes

\* C37: run_workflow raises no exception to its caller: an error raised
\* after entry (in a read of the catalog, a merge, an enqueue, a dispatch or
\* a write of the table) gives the returned value success = false with an
\* error text that begins 'Unexpected error during workflow execution', and
\* no node is dispatched after it.
C37_NoExceptionEscapes == [][C37_Step]_vars

\* update_execution_record raised after the dispatch of the second node: the
\* call returned the failure of the except clause, the row is still running
C37_Witness ==
    /\ pc = "done"
    /\ ret = Failure(UnexpectedPrefix \o ": " \o StoreError)
    /\ Cardinality(completed_nodes) = 2
    /\ Executions[execution_id].status = "running"

(***************************************************************************)
(* The scheduler's bookkeeping                                             *)
(***************************************************************************)
\* the run stands between two node steps: before a root iteration, or at a
\* pop of the queue
BetweenNodeSteps == pc \in {"root_create", "queue"}

\* the completed set, the keys of the results and the keys of the execution
\* ids are the same set of nodes of the workflow
C40_SameKeys ==
    /\ completed_nodes = DOMAIN execution_results
    /\ completed_nodes = DOMAIN node_execution_ids
    /\ completed_nodes \subseteq NodeIdSet

HasCompletedPredecessor(n) == \E p \in Predecessors(n) : p \in completed_nodes

\* C40: between two node steps the completed set, the keys of the results
\* and the keys of the execution ids are equal and are node ids of the
\* workflow, and every queued node that is not completed has a completed
\* predecessor.
C40_QueuedHaveCompletedPredecessor ==
    BetweenNodeSteps =>
        /\ C40_SameKeys
        /\ \A k \in DOMAIN queue :
              queue[k] \notin completed_nodes => HasCompletedPredecessor(queue[k])

\* C40 amended: the same, but a queued node that is not completed is a root
\* that the root loop has not dispatched yet, or has a completed predecessor.
C40_QueuedAreRootsOrHaveCompletedPredecessor ==
    BetweenNodeSteps =>
        /\ C40_SameKeys
        /\ \A k \in DOMAIN queue :
              queue[k] \notin completed_nodes =>
                  \/ /\ pc = "root_create"
                     /\ \E r \in root_index..Len(root_nodes) : root_nodes[r].id = queue[k]
                  \/ HasCompletedPredecessor(queue[k])

\* between the two root iterations: the queue holds root 1, dispatched, root
\* 2, not dispatched yet, and the successor 3 of root 1
C40_Witness ==
    /\ pc = "root_create"
    /\ root_index = 2
    /\ completed_nodes = {1}
    /\ queue = <<1, 2, 3>>
    /\ Predecessors(2) = {}
    /\ 1 \in Predecessors(3)

(***************************************************************************)
(* C36  In the normalized-ledger executor, the WorkflowExecutions row that *)
(* run_workflow created with status running is completed or failed by the  *)
(* time run_workflow returns, also when the workflow is not found, has no  *)
(* nodes or has no root node.                                              *)
(***************************************************************************)
C36_WorkflowExecutionFinalized ==
    pc = "workflow.done" =>
        WorkflowExecutions[workflow_execution_id].status \in {"completed", "failed"}

(***************************************************************************)
(* C38  The two executors on the same catalog, the same initial input and  *)
(* the same node handler outcomes dispatch the same nodes in the same      *)
(* order with the same inputs, write the same status for each node, and    *)
(* return the same success flag and the same results map.                  *)
(***************************************************************************)
\* what a ledger row says of a dispatch: the node, its input, its status
Dispatch(rec) == [node_id |-> rec.node_id, input |-> rec.input, status |-> rec.status]

\* the dispatches of the flat-ledger run, in the order of their rows
FlatDispatches ==
    [i \in 1..(Len(Executions) - Len(ledger_before)) |->
        Dispatch(Executions[Len(ledger_before) + i])]

\* the dispatches of the normalized-ledger run, in the order of their rows
NormDispatches ==
    LET rows == SelectSeq(NodeExecutions,
                          LAMBDA rec : rec.workflow_execution_id = workflow_execution_id)
    IN [i \in 1..Len(rows) |-> Dispatch(rows[i])]

\* the input stored for node n in a sequence of dispatches
InputOf(ds, n) == ds[CHOOSE i \in DOMAIN ds : ds[i].node_id = n].input

\* both executors have returned from a call with the same arguments
BothReturned ==
    /\ pc = "workflow.done"
    /\ flat_run # None
    /\ flat_run.workflow_id = workflow_id
    /\ flat_run.initial_input = initial_input

\* the handlers behaved alike: a node that both runs dispatched on the same
\* input gave the same result in both
SameOutcomes ==
    \A n \in DOMAIN flat_run.execution_results \cap DOMAIN execution_results :
        InputOf(FlatDispatches, n) = InputOf(NormDispatches, n)
            => flat_run.execution_results[n] = execution_results[n]

C38_ExecutorsAgree ==
    (BothReturned /\ SameOutcomes) =>
        /\ FlatDispatches = NormDispatches
        /\ flat_run.ret.success = ret.success
        /\ Get(flat_run.ret, "error") = Get(ret, "error")
        /\ ret.success => flat_run.ret.results = ret.results
        /\ flat_run.execution_results = execution_results

\* both runs dispatched two nodes, one of which failed, and both succeeded
C38_Witness ==
    /\ BothReturned
    /\ SameOutcomes
    /\ ret.success
    /\ Len(NormDispatches) = 2
    /\ \E i \in DOMAIN NormDispatches : NormDispatches[i].status = "failed"

====
